---- MODULE Spec2Model ----
(***************************************************************************)
(* Model of the authentication subsystem of langchain-fastapi:             *)
(*   app/core/security.py    token codec and password hashing              *)
(*   app/services/user.py    user directory services                       *)
(*   app/api/deps/auth.py    bearer guards                                 *)
(*   app/api/v1/auth.py      /auth endpoints                               *)
(*   app/api/v1/users.py     /users endpoints                              *)
(*   app/api/v1/llm.py       /llm/chat and /llm/blog/generate              *)
(*   app/api/v1/health.py    /health/ready                                 *)
(*   app/models/user.py      validation of request bodies                  *)
(*   app/services/langchain_blog.py  the blog generation workflow          *)
(*   app/core/exceptions.py  the domain errors and their HTTP status       *)
(*                                                                         *)
(* Time is counted in whole seconds since the epoch plus a flag telling    *)
(* whether a fraction of a second has passed (datetime.utcnow() carries    *)
(* microseconds, a JWT NumericDate carries whole seconds).                 *)
(***************************************************************************)
EXTENDS Integers, Sequences, FiniteSets, TLC

VARIABLES
    tz,       \* the server's local UTC offset in seconds (process environment)
    clock,    \* the current UTC time: [sec, frac]
    ticks,    \* how many times the clock was advanced (bounds the exploration)
    users,    \* the users table: a sequence of rows, row i has id i
    tokens,   \* the tokens the client holds: those of the last response that
              \* handed out tokens (the server stores no token)
    reg,      \* the create_user calls in flight, one per request slot
    chg,      \* the change_password calls in flight, one per request slot
    blog,     \* the generate_blog_article call in flight, with the steps it ran
    resp      \* the response of the last completed operation

vars == <<tz, clock, ticks, users, tokens, reg, chg, blog, resp>>

----------------------------------------------------------------------------
(* Bounds of the exploration *)

MaxCodecTicks == 2
MaxTicks == 1
MaxUsers == 2
MaxSlots == 2

(* Program constants *)

access_token_expire_minutes == 30
refresh_token_expire_days == 7
reset_token_expire_minutes == 15

HTTP_200_OK == 200
HTTP_400_BAD_REQUEST == 400
HTTP_401_UNAUTHORIZED == 401
HTTP_403_FORBIDDEN == 403
HTTP_404_NOT_FOUND == 404
HTTP_409_CONFLICT == 409
HTTP_422_UNPROCESSABLE_ENTITY == 422
HTTP_500_INTERNAL_SERVER_ERROR == 500

\* timedelta(minutes=m) and timedelta(days=d) in seconds
Minutes(m) == m * 60
Days(d) == d * 86400

----------------------------------------------------------------------------
(* datetime *)

\* timedelta arithmetic on a naive datetime: whole seconds are added, the
\* sub-second part is kept.
DtAdd(dt, seconds) == [sec |-> dt.sec + seconds, frac |-> dt.frac]

\* dt1 > dt2 on naive datetimes
DtGreater(dt1, dt2) ==
    \/ dt1.sec > dt2.sec
    \/ dt1.sec = dt2.sec /\ dt1.frac > dt2.frac

\* calendar.timegm(dt.utctimetuple()): the whole seconds, the fraction dropped.
\* This is how jwt.encode turns the datetime claims exp and iat into numbers
\* and how jwt.decode reads the current time.
Timegm(dt) == dt.sec

\* datetime.fromtimestamp(ts) with no tz argument: the naive LOCAL time of the
\* instant ts, that is the UTC wall clock shifted by the server's UTC offset.
fromtimestamp(ts, offset) == [sec |-> ts + offset, frac |-> 0]

----------------------------------------------------------------------------
(* Claims and tokens.  A claim set is a function from claim names to        *)
(* values; a token is a claim set with the state of its signature.          *)

\* The empty dict
EmptyDict == [k \in {} |-> 0]

NoClaims == EmptyDict

\* dict.update
DictUpdate(d, extra) ==
    [k \in DOMAIN d \cup DOMAIN extra |->
        IF k \in DOMAIN extra THEN extra[k] ELSE d[k]]

\* Optional values: None is the empty sequence, a value x is <<x>>.
None == <<>>
Some(x) == <<x>>

\* timedelta truthiness (`if expires_delta:`): None and timedelta(0) are
\* both falsy.  expires_delta is an Optional number of seconds.
DeltaIsTruthy(expires_delta) == expires_delta # None /\ expires_delta[1] # 0

\* jwt.encode(to_encode, secret_key, algorithm): datetime claims become
\* NumericDates, the result carries a good signature.
jwt_encode(to_encode) ==
    [claims |-> [k \in DOMAIN to_encode |->
                    IF k \in {"exp", "iat"} THEN Timegm(to_encode[k])
                    ELSE to_encode[k]],
     sig |-> "valid"]

create_access_token(subject, expires_delta, additional_claims, now) ==
    LET expire == IF DeltaIsTruthy(expires_delta)
                  THEN DtAdd(now, expires_delta[1])
                  ELSE DtAdd(now, Minutes(access_token_expire_minutes))
        to_encode == [sub |-> subject, exp |-> expire, iat |-> now,
                      type |-> "access"]
    IN  jwt_encode(DictUpdate(to_encode, additional_claims))

create_refresh_token(subject, now) ==
    LET expire == DtAdd(now, Days(refresh_token_expire_days))
    IN  jwt_encode([sub |-> subject, exp |-> expire, iat |-> now,
                    type |-> "refresh"])

generate_password_reset_token(email, now) ==
    LET expire == DtAdd(now, Minutes(reset_token_expire_minutes))
    IN  jwt_encode([sub |-> email, exp |-> expire, iat |-> now,
                    type |-> "password_reset"])

\* The issuing function of each token kind
issue_token(kind, subject, now) ==
    CASE kind = "access" -> create_access_token(subject, None, NoClaims, now)
      [] kind = "refresh" -> create_refresh_token(subject, now)
      [] OTHER -> generate_password_reset_token(subject, now)

\* Results of the codec: ok with the payload, or the UnauthorizedError message.
Ok(payload) == [ok |-> TRUE, err |-> "", payload |-> payload]
Err(msg) == [ok |-> FALSE, err |-> msg, payload |-> NoClaims]

ErrMalformed == "Invalid token: Not enough segments"
ErrBadSignature == "Invalid token: Signature verification failed."
ErrSignatureExpired == "Invalid token: Signature has expired."
ErrWrongType == "Invalid token type"
ErrExpired == "Token has expired"
ErrNoUserId == "Invalid token: no user ID"

\* jwt.decode(token, secret_key, algorithms=[algorithm]) of python-jose with
\* its default options: the string is split into its three segments, the
\* signature is checked, then the exp claim is
\* validated against the whole-second UTC time (exp < now raises
\* ExpiredSignatureError, a JWTError).
jwt_decode(token, now) ==
    IF token.sig = "malformed" THEN Err(ErrMalformed)
    ELSE IF token.sig # "valid" THEN Err(ErrBadSignature)
    ELSE IF "exp" \in DOMAIN token.claims /\ token.claims["exp"] < Timegm(now)
         THEN Err(ErrSignatureExpired)
    ELSE Ok(token.claims)

TypeMismatch(payload, token_type) ==
    ~("type" \in DOMAIN payload /\ payload["type"] = token_type)

ExpiredByLocalClock(payload, now, offset) ==
    \/ "exp" \notin DOMAIN payload
    \/ DtGreater(now, fromtimestamp(payload["exp"], offset))

verify_token(token, token_type, now, offset) ==
    LET decoded == jwt_decode(token, now)
    IN  IF ~decoded.ok THEN decoded
        ELSE IF TypeMismatch(decoded.payload, token_type) THEN Err(ErrWrongType)
        ELSE IF ExpiredByLocalClock(decoded.payload, now, offset)
             THEN Err(ErrExpired)
        ELSE decoded

----------------------------------------------------------------------------
(* Password hashing (passlib CryptContext, bcrypt).  bcrypt hashes the      *)
(* first 72 bytes of a password and ignores the rest, so a password is the  *)
(* record of its first 72 bytes and of the bytes after them.  The hash of a *)
(* password is not the password.                                            *)

get_password_hash(password) == <<"bcrypt", password.first72>>

verify_password(plain_password, hashed_password) ==
    hashed_password = get_password_hash(plain_password)

----------------------------------------------------------------------------
(* str() and int() between user ids and token subjects *)

IdDomain == 0..(MaxUsers + 1)

Str(i) == ToString(i)

IsIntLiteral(s) == \E i \in IdDomain : ToString(i) = s

\* int(s); raises ValueError when s is no integer literal (see IsIntLiteral)
ParseInt(s) == CHOOSE i \in IdDomain : ToString(i) = s

----------------------------------------------------------------------------
(* The users table and the services of app/services/user.py                 *)

SetMin(S) == CHOOSE x \in S : \A y \in S : x <= y

\* .first() / scalar_one_or_none() over a filtered query
FirstRow(tbl, idxs) == IF idxs = {} THEN None ELSE Some(tbl[SetMin(idxs)])

get_user_by_id(tbl, user_id) ==
    FirstRow(tbl, {i \in DOMAIN tbl : tbl[i].id = user_id})

get_user_by_email(tbl, email) ==
    FirstRow(tbl, {i \in DOMAIN tbl : tbl[i].email = email})

get_user_by_username(tbl, username) ==
    FirstRow(tbl, {i \in DOMAIN tbl : tbl[i].username = username})

\* update(UserSchema).where(UserSchema.id == user_id).values(**update_data)
UpdateRow(tbl, user_id, update_data) ==
    [i \in DOMAIN tbl |->
        IF tbl[i].id = user_id THEN DictUpdate(tbl[i], update_data) ELSE tbl[i]]

\* The row of a user created as a superuser
NewSuperuserRow(tbl, user_create) ==
    [id |-> Len(tbl) + 1,
     email |-> user_create.email,
     username |-> user_create.username,
     full_name |-> user_create.full_name,
     hashed_password |-> get_password_hash(user_create.password),
     is_active |-> user_create.is_active,
     is_superuser |-> TRUE,
     last_login |-> None]

\* The row create_user builds; is_superuser takes the column default.
NewRow(tbl, user_create) ==
    [id |-> Len(tbl) + 1,
     email |-> user_create.email,
     username |-> user_create.username,
     full_name |-> user_create.full_name,
     hashed_password |-> get_password_hash(user_create.password),
     is_active |-> user_create.is_active,
     is_superuser |-> FALSE,
     last_login |-> None]

\* The unique=True constraints of the email and username columns: an INSERT
\* that would duplicate either raises IntegrityError at commit.
UniqueViolation(tbl, row) ==
    \E i \in DOMAIN tbl :
        tbl[i].email = row.email \/ tbl[i].username = row.username

\* UserInDB.from_orm: the response built from the internal model, which
\* carries hashed_password
UserInDBView(row) == row

\* User.from_orm: the response view of a row (no hashed_password field)
UserView(row) ==
    [id |-> row.id, email |-> row.email, username |-> row.username,
     full_name |-> row.full_name, is_active |-> row.is_active,
     is_superuser |-> row.is_superuser, last_login |-> row.last_login]

\* Service results: the value returned or the exception raised, and the table
\* after the call.
Returned(value, tbl) == [raised |-> "", message |-> "", value |-> value, users |-> tbl]
Raised(kind, message, tbl) ==
    [raised |-> kind, message |-> message, value |-> None, users |-> tbl]

\* The domain errors of app/core/exceptions.py and the status_code each
\* class passes to BaseAppException
DomainErrors ==
    {"ValidationError", "NotFoundError", "UnauthorizedError",
     "ForbiddenError", "ConflictError"}

status_code(kind) ==
    CASE kind = "ValidationError" -> HTTP_422_UNPROCESSABLE_ENTITY
      [] kind = "NotFoundError" -> HTTP_404_NOT_FOUND
      [] kind = "UnauthorizedError" -> HTTP_401_UNAUTHORIZED
      [] kind = "ForbiddenError" -> HTTP_403_FORBIDDEN
      [] kind = "ConflictError" -> HTTP_409_CONFLICT
      [] OTHER -> HTTP_500_INTERNAL_SERVER_ERROR

update_user(tbl, user_id, user_update) ==
    IF get_user_by_id(tbl, user_id) = None
    THEN Raised("NotFoundError", "User not found", tbl)
    ELSE LET with_name ==
                 IF user_update.full_name # None
                 THEN [full_name |-> user_update.full_name] ELSE EmptyDict
             update_data ==
                 IF user_update.is_active # None
                 THEN DictUpdate(with_name, [is_active |-> user_update.is_active[1]])
                 ELSE with_name
             updated == IF update_data # EmptyDict
                        THEN UpdateRow(tbl, user_id, update_data) ELSE tbl
         IN  Returned(get_user_by_id(updated, user_id), updated)

\* change_password without the check of the current password
change_password_unchecked(tbl, user_id, password_change) ==
    LET db_user == get_user_by_id(tbl, user_id)
    IN  IF db_user = None
        THEN Raised("NotFoundError", "User not found", tbl)
        ELSE LET update_data ==
                     [hashed_password |->
                          get_password_hash(password_change.new_password)]
                 updated == UpdateRow(tbl, user_id, update_data)
             IN  Returned(get_user_by_id(updated, user_id), updated)

change_password(tbl, user_id, password_change) ==
    LET db_user == get_user_by_id(tbl, user_id)
    IN  IF db_user = None
        THEN Raised("NotFoundError", "User not found", tbl)
        ELSE IF ~verify_password(password_change.current_password,
                                 db_user[1].hashed_password)
        THEN Raised("ValidationError", "Current password is incorrect", tbl)
        ELSE LET update_data ==
                     [hashed_password |->
                          get_password_hash(password_change.new_password)]
                 updated == UpdateRow(tbl, user_id, update_data)
             IN  Returned(get_user_by_id(updated, user_id), updated)

\* change_password, one database round trip per step: the SELECT of
\* get_user_by_id, the check of the current password against the row that
\* was read, the UPDATE with its commit, and the SELECT of the row returned.
NoCall == [pc |-> "idle", user_id |-> 0, password_change |-> None,
           db_user |-> None]

\* change_password_check that accepts every current password
change_password_check_skipped(db_user, password_change) == TRUE

\* verify_password(password_change.current_password, db_user.hashed_password)
change_password_check(db_user, password_change) ==
    verify_password(password_change.current_password, db_user.hashed_password)

\* The UPDATE of hashed_password
change_password_write(tbl, user_id, password_change) ==
    UpdateRow(tbl, user_id,
              [hashed_password |->
                   get_password_hash(password_change.new_password)])

authenticate_user_ignoring_is_active(tbl, email, password, now) ==
    LET user == get_user_by_email(tbl, email)
    IN  IF user = None THEN Returned(None, tbl)
        ELSE IF ~verify_password(password, user[1].hashed_password)
        THEN Returned(None, tbl)
        ELSE LET update_data == [last_login |-> Some(now)]
             IN  Returned(user, UpdateRow(tbl, user[1].id, update_data))

authenticate_user(tbl, email, password, now) ==
    LET user == get_user_by_email(tbl, email)
    IN  IF user = None THEN Returned(None, tbl)
        ELSE IF ~verify_password(password, user[1].hashed_password)
        THEN Returned(None, tbl)
        ELSE IF ~user[1].is_active THEN Returned(None, tbl)
        ELSE LET update_data == [last_login |-> Some(now)]
             IN  Returned(user, UpdateRow(tbl, user[1].id, update_data))

\* get_users(db, skip, limit): rows skip+1 .. skip+limit in id order
get_users(tbl, skip, limit) ==
    [k \in 1..(IF Len(tbl) - skip > limit THEN limit
               ELSE IF Len(tbl) - skip > 0 THEN Len(tbl) - skip ELSE 0)
        |-> tbl[skip + k]]

----------------------------------------------------------------------------
(* The guards of app/api/deps/auth.py.  A credential is Optional: None when *)
(* the request carries no Authorization header (HTTPBearer has              *)
(* auto_error=False), else Some(token).                                     *)

\* get_user_id_from_token reading the claims without verifying the token
get_user_id_from_token_unverified(token, now, offset) ==
    IF "sub" \notin DOMAIN token.claims THEN Err(ErrNoUserId)
    ELSE Ok(token.claims)

get_user_id_from_token(token, now, offset) ==
    LET verified == verify_token(token, "access", now, offset)
    IN  IF ~verified.ok THEN verified
        ELSE IF "sub" \notin DOMAIN verified.payload THEN Err(ErrNoUserId)
        ELSE verified

\* Guard results: the resolved user, or the HTTP error the guard raises.
Pass(user) == [ok |-> TRUE, status |-> HTTP_200_OK, detail |-> "", user |-> user]
Reject(status, detail) == [ok |-> FALSE, status |-> status, detail |-> detail, user |-> None]

\* get_current_user_id: credentials.credentials on a missing credential
\* raises AttributeError, which the except clause turns into 401 as well.
get_current_user_id(credentials, now, offset) ==
    IF credentials = None
    THEN Reject(HTTP_401_UNAUTHORIZED, "Could not validate credentials")
    ELSE LET got == get_user_id_from_token(credentials[1], now, offset)
         IN  IF got.ok THEN Pass(Some(got.payload["sub"]))
             ELSE Reject(HTTP_401_UNAUTHORIZED, "Could not validate credentials")

\* OptionalAuth.__call__: no credential is no identity (Pass(None)); every
\* exception of get_user_id_from_token is caught and gives no identity too.
optional_auth(credentials, now, offset) ==
    IF credentials = None THEN Pass(None)
    ELSE LET got == get_user_id_from_token(credentials[1], now, offset)
         IN  IF got.ok THEN Pass(Some(got.payload["sub"]))
             ELSE Pass(None)

\* get_current_user without the is_active check
get_current_user_ignoring_is_active(tbl, user_id) ==
    IF ~user_id.ok THEN user_id
    ELSE IF ~IsIntLiteral(user_id.user[1])
    THEN Reject(HTTP_500_INTERNAL_SERVER_ERROR, "Internal server error")
    ELSE LET user == get_user_by_id(tbl, ParseInt(user_id.user[1]))
         IN  IF user = None
             THEN Reject(HTTP_401_UNAUTHORIZED, "User not found")
             ELSE Pass(user)

\* get_current_user(db, user_id = Depends(get_current_user_id)): user_id is
\* the result of get_current_user_id, whose rejection ends the request.
\* int(user_id) is outside any try block, so a subject that is no integer
\* literal ends in the general exception handler.
get_current_user(tbl, user_id) ==
    IF ~user_id.ok THEN user_id
    ELSE IF ~IsIntLiteral(user_id.user[1])
    THEN Reject(HTTP_500_INTERNAL_SERVER_ERROR, "Internal server error")
    ELSE LET user == get_user_by_id(tbl, ParseInt(user_id.user[1]))
         IN  IF user = None
             THEN Reject(HTTP_401_UNAUTHORIZED, "User not found")
             ELSE IF ~user[1].is_active
             THEN Reject(HTTP_401_UNAUTHORIZED, "User is not active")
             ELSE Pass(user)

\* get_current_superuser without the is_superuser check
get_current_superuser_unchecked(current_user) == current_user

\* get_current_superuser(current_user = Depends(get_current_user))
get_current_superuser(current_user) ==
    IF ~current_user.ok THEN current_user
    ELSE IF ~current_user.user[1].is_superuser
    THEN Reject(HTTP_403_FORBIDDEN, "Not enough permissions")
    ELSE current_user

----------------------------------------------------------------------------
(* The endpoints as functions of the request, the table and the time: the   *)
(* HTTP status and detail, the response data, the table afterwards and the  *)
(* tokens issued.  A bearer-protected endpoint takes current_user, the      *)
(* result of the guard it Depends on; the guard's rejection is the answer.  *)

Http(status, detail, data, tbl, issued) ==
    [status |-> status, detail |-> detail, data |-> data, users |-> tbl,
     issued |-> issued]

HttpError(status, detail, tbl) == Http(status, detail, None, tbl, {})

\* The Token response of login and refresh
TokenData(access_token, refresh_token) ==
    [access_token |-> access_token, refresh_token |-> refresh_token,
     token_type |-> "bearer", expires_in |-> access_token_expire_minutes * 60]

\* POST /auth/login
login(tbl, user_login, now) ==
    LET auth == authenticate_user(tbl, user_login.email, user_login.password, now)
    IN  IF auth.value = None
        THEN HttpError(HTTP_401_UNAUTHORIZED, "Incorrect email or password", auth.users)
        ELSE LET subject == Str(auth.value[1].id)
                 access_token ==
                     create_access_token(subject,
                         Some(Minutes(access_token_expire_minutes)), NoClaims, now)
                 refresh == create_refresh_token(subject, now)
             IN  Http(HTTP_200_OK, "Login successful",
                      Some(TokenData(access_token, refresh)), auth.users,
                      {access_token, refresh})

\* POST /auth/refresh.  `not user_id` is true for a missing and for an empty
\* subject; every exception that is no HTTPException, the UnauthorizedError
\* of verify_token and the ValueError of int() included, becomes 401.
refresh_token(tbl, token_refresh, now, offset) ==
    LET verified == verify_token(token_refresh, "refresh", now, offset)
    IN  IF ~verified.ok
        THEN HttpError(HTTP_401_UNAUTHORIZED, "Could not refresh token", tbl)
        ELSE IF "sub" \notin DOMAIN verified.payload \/ verified.payload["sub"] = ""
        THEN HttpError(HTTP_401_UNAUTHORIZED, "Invalid refresh token", tbl)
        ELSE IF ~IsIntLiteral(verified.payload["sub"])
        THEN HttpError(HTTP_401_UNAUTHORIZED, "Could not refresh token", tbl)
        ELSE LET user_id == verified.payload["sub"]
                 user == get_user_by_id(tbl, ParseInt(user_id))
             IN  IF user = None \/ ~user[1].is_active
                 THEN HttpError(HTTP_401_UNAUTHORIZED, "User not found or inactive", tbl)
                 ELSE LET access_token ==
                              create_access_token(user_id,
                                  Some(Minutes(access_token_expire_minutes)),
                                  NoClaims, now)
                          refresh == create_refresh_token(user_id, now)
                      IN  Http(HTTP_200_OK, "Token refreshed successfully",
                               Some(TokenData(access_token, refresh)), tbl,
                               {access_token, refresh})

\* GET /auth/me
get_current_user_info(tbl, current_user) ==
    IF ~current_user.ok
    THEN HttpError(current_user.status, current_user.detail, tbl)
    ELSE Http(HTTP_200_OK, "User information retrieved",
              Some(UserView(current_user.user[1])), tbl, {})

\* POST /auth/change-password: every exception of change_password becomes 400
\* with the exception's text.
change_user_password(tbl, current_user, password_change) ==
    IF ~current_user.ok
    THEN HttpError(current_user.status, current_user.detail, tbl)
    ELSE LET changed ==
                 change_password(tbl, current_user.user[1].id, password_change)
         IN  IF changed.raised # ""
             THEN HttpError(HTTP_400_BAD_REQUEST, changed.message, changed.users)
             ELSE Http(HTTP_200_OK, "Password changed successfully",
                       Some(UserView(changed.value[1])), changed.users, {})

\* The page of GET /users: PaginationParams.offset and the slice returned
list_users(tbl, current_user, page, size) ==
    IF ~current_user.ok
    THEN HttpError(current_user.status, current_user.detail, tbl)
    ELSE LET rows == get_users(tbl, (page - 1) * size, size)
         IN  Http(HTTP_200_OK, "Users retrieved successfully",
                  Some([k \in DOMAIN rows |-> UserView(rows[k])]), tbl, {})

\* get_user without the check of the owner
get_user_of_anyone(tbl, current_user, user_id) ==
    IF ~current_user.ok
    THEN HttpError(current_user.status, current_user.detail, tbl)
    ELSE LET user == get_user_by_id(tbl, user_id)
         IN  IF user = None
             THEN HttpError(HTTP_404_NOT_FOUND, "User not found", tbl)
             ELSE Http(HTTP_200_OK, "User retrieved successfully",
                       Some(UserView(user[1])), tbl, {})

\* GET /users/{user_id}
get_user(tbl, current_user, user_id) ==
    IF ~current_user.ok
    THEN HttpError(current_user.status, current_user.detail, tbl)
    ELSE IF user_id # current_user.user[1].id /\ ~current_user.user[1].is_superuser
    THEN HttpError(HTTP_403_FORBIDDEN, "Not enough permissions", tbl)
    ELSE LET user == get_user_by_id(tbl, user_id)
         IN  IF user = None
             THEN HttpError(HTTP_404_NOT_FOUND, "User not found", tbl)
             ELSE Http(HTTP_200_OK, "User retrieved successfully",
                       Some(UserView(user[1])), tbl, {})

\* update_user_info that passes the body on as it came
update_user_info_with_is_active(tbl, current_user, user_id, user_update) ==
    IF ~current_user.ok
    THEN HttpError(current_user.status, current_user.detail, tbl)
    ELSE IF user_id # current_user.user[1].id /\ ~current_user.user[1].is_superuser
    THEN HttpError(HTTP_403_FORBIDDEN, "Not enough permissions", tbl)
    ELSE LET updated == update_user(tbl, user_id, user_update)
         IN  IF updated.raised # ""
             THEN HttpError(HTTP_400_BAD_REQUEST, updated.message, updated.users)
             ELSE Http(HTTP_200_OK, "User updated successfully",
                       Some(UserView(updated.value[1])), updated.users, {})

\* PUT /users/{user_id}: a non-superuser's is_active is dropped; the
\* NotFoundError of update_user is no HTTPException and becomes 400.
update_user_info(tbl, current_user, user_id, user_update) ==
    IF ~current_user.ok
    THEN HttpError(current_user.status, current_user.detail, tbl)
    ELSE IF user_id # current_user.user[1].id /\ ~current_user.user[1].is_superuser
    THEN HttpError(HTTP_403_FORBIDDEN, "Not enough permissions", tbl)
    ELSE LET effective ==
                 IF ~current_user.user[1].is_superuser
                    /\ user_update.is_active # None
                 THEN [user_update EXCEPT !.is_active = None]
                 ELSE user_update
             updated == update_user(tbl, user_id, effective)
         IN  IF updated.raised # ""
             THEN HttpError(HTTP_400_BAD_REQUEST, updated.message, updated.users)
             ELSE Http(HTTP_200_OK, "User updated successfully",
                       Some(UserView(updated.value[1])), updated.users, {})

\* GET and PUT /users/me.  The router registers /{user_id} before /me for
\* both methods, so the path /users/me is matched by /{user_id}: its guard
\* get_current_user runs first, then "me" fails the int validation of
\* user_id and the request ends 422 without reaching a handler body.
users_me(tbl, current_user) ==
    IF ~current_user.ok
    THEN HttpError(current_user.status, current_user.detail, tbl)
    ELSE HttpError(HTTP_422_UNPROCESSABLE_ENTITY, "Validation failed", tbl)

\* The body of update_current_user_profile, the handler declared for
\* PUT /users/me: is_active is dropped for every caller, and every exception
\* of update_user becomes 400.
update_current_user_profile(tbl, current_user, user_update) ==
    IF ~current_user.ok
    THEN HttpError(current_user.status, current_user.detail, tbl)
    ELSE LET effective == [user_update EXCEPT !.is_active = None]
             updated == update_user(tbl, current_user.user[1].id, effective)
         IN  IF updated.raised # ""
             THEN HttpError(HTTP_400_BAD_REQUEST, updated.message, updated.users)
             ELSE Http(HTTP_200_OK, "Profile updated successfully",
                       Some(UserView(updated.value[1])), updated.users, {})

\* The same requests on a database that may be out of reach (db is "up" or
\* "down"): every query of a session whose connection is lost raises
\* sqlalchemy's OperationalError, which the lookups log and raise again.

\* authenticate_user: its except clause logs the error and returns None.
authenticate_user_db(db, tbl, email, password, now) ==
    IF db = "down" THEN Returned(None, tbl)
    ELSE authenticate_user(tbl, email, password, now)

\* POST /auth/login
login_db(db, tbl, user_login, now) ==
    IF authenticate_user_db(db, tbl, user_login.email, user_login.password,
                            now).value = None
    THEN HttpError(HTTP_401_UNAUTHORIZED, "Incorrect email or password", tbl)
    ELSE login(tbl, user_login, now)

\* POST /auth/refresh: the token is verified first; the error of
\* get_user_by_id is no HTTPException and becomes 401.
refresh_token_db(db, tbl, token_refresh, now, offset) ==
    LET verified == verify_token(token_refresh, "refresh", now, offset)
    IN  IF /\ db = "down"
           /\ verified.ok
           /\ "sub" \in DOMAIN verified.payload
           /\ verified.payload["sub"] # ""
           /\ IsIntLiteral(verified.payload["sub"])
        THEN HttpError(HTTP_401_UNAUTHORIZED, "Could not refresh token", tbl)
        ELSE refresh_token(tbl, token_refresh, now, offset)

\* get_current_user: the error of get_user_by_id is not caught and ends in
\* the general exception handler.
get_current_user_db(db, tbl, user_id) ==
    IF db = "down" /\ user_id.ok /\ IsIntLiteral(user_id.user[1])
    THEN Reject(HTTP_500_INTERNAL_SERVER_ERROR, "Internal server error")
    ELSE get_current_user(tbl, user_id)

\* readiness_check that lets the error of the probe through
readiness_check_raising(db, tbl, now) ==
    IF db = "down"
    THEN HttpError(HTTP_500_INTERNAL_SERVER_ERROR, "Internal server error", tbl)
    ELSE Http(HTTP_200_OK, "", Some([status |-> "ready", timestamp |-> now]),
              tbl, {})

\* GET /health/ready: the probe SELECT 1 returns or raises; the except
\* clause answers with a HealthCheckResponse as well.
readiness_check(db, tbl, now) ==
    IF db = "up"
    THEN Http(HTTP_200_OK, "", Some([status |-> "ready", timestamp |-> now]),
              tbl, {})
    ELSE Http(HTTP_200_OK, "",
              Some([status |-> "not_ready", timestamp |-> now]), tbl, {})

\* POST /llm/chat.  user_id is the result of optional_auth, outcome what
\* generate_chat_response returns or raises: a ValueError becomes 400 and
\* every other exception 500, both with the exception's text as detail.
chat(tbl, user_id, outcome) ==
    IF ~user_id.ok THEN HttpError(user_id.status, user_id.detail, tbl)
    ELSE IF outcome.raised = "ValueError"
    THEN HttpError(HTTP_400_BAD_REQUEST, outcome.message, tbl)
    ELSE IF outcome.raised # ""
    THEN HttpError(HTTP_500_INTERNAL_SERVER_ERROR, outcome.message, tbl)
    ELSE Http(HTTP_200_OK, "ok", outcome.value, tbl, {})

----------------------------------------------------------------------------
(* create_user, one database round trip per step.  It is reached from       *)
(* POST /auth/register and from POST /users; both endpoints turn every      *)
(* exception into 400 with the exception's text.                            *)

Idle == [pc |-> "idle", via |-> "", user_create |-> None]

\* The email lookup of create_user left out
create_user_check_email_skipped(tbl, user_create) == Returned(None, tbl)

create_user_check_email(tbl, user_create) ==
    IF get_user_by_email(tbl, user_create.email) # None
    THEN Raised("ConflictError", "User with this email already exists", tbl)
    ELSE Returned(None, tbl)

create_user_check_username(tbl, user_create) ==
    IF get_user_by_username(tbl, user_create.username) # None
    THEN Raised("ConflictError", "User with this username already exists", tbl)
    ELSE Returned(None, tbl)

\* The INSERT of create_user on columns without unique=True
create_user_insert_unconstrained(tbl, user_create) ==
    LET db_user == NewRow(tbl, user_create)
    IN  Returned(Some(db_user), Append(tbl, db_user))

create_user_insert(tbl, user_create) ==
    LET db_user == NewRow(tbl, user_create)
    IN  IF UniqueViolation(tbl, db_user)
        THEN Raised("IntegrityError", "UNIQUE constraint failed", tbl)
        ELSE Returned(Some(db_user), Append(tbl, db_user))

\* create_user as a whole, when no other request runs between its steps
create_user(tbl, user_create) ==
    LET by_email == create_user_check_email(tbl, user_create)
        by_username == create_user_check_username(tbl, user_create)
    IN  IF by_email.raised # "" THEN by_email
        ELSE IF by_username.raised # "" THEN by_username
        ELSE create_user_insert(tbl, user_create)

SuccessMessage(via) ==
    IF via = "register" THEN "User registered successfully"
    ELSE "User created successfully"

\* POST /auth/register when no other request runs between the steps of
\* create_user
register(tbl, user_create) ==
    LET created == create_user(tbl, user_create)
    IN  IF created.raised # ""
        THEN HttpError(HTTP_400_BAD_REQUEST, created.message, created.users)
        ELSE Http(HTTP_200_OK, SuccessMessage("register"),
                  Some(UserView(created.value[1])), created.users, {})

----------------------------------------------------------------------------
(* generate_blog_article, one LLM call per step.  What a chain returns is   *)
(* a text that json.loads parses to the object obj or does not parse, or    *)
(* the call raises.                                                         *)

section_count_min == 3
fallback_outline_length == 4

Get(d, key, default) == IF key \in DOMAIN d THEN d[key] ELSE default

LlmText(obj) == [raised |-> FALSE, parses |-> TRUE, obj |-> obj]
Unparsable == [raised |-> FALSE, parses |-> FALSE, obj |-> EmptyDict]
LlmError == [raised |-> TRUE, parses |-> FALSE, obj |-> EmptyDict]

\* safe_json_loads that gives an empty object for a text that does not parse
safe_json_loads_empty(text) == text.obj

\* safe_json_loads: a text that does not parse, as it is or between its
\* braces, gives the object that asks for clarification.
safe_json_loads(text) ==
    IF text.parses THEN text.obj
    ELSE [need_clarification |-> TRUE, questions |-> <<"question 0">>]

\* The questions asked when the intent output carries none
DefaultQuestions == <<"question 1", "question 2", "question 3">>

\* `not req.clarification_answers`: None and the empty list
NoAnswers(req) ==
    req.clarification_answers = None \/ req.clarification_answers[1] = << >>

\* The fallback outline of four headings
FallbackOutline == [i \in 1..fallback_outline_length |-> "keyword " \o ToString(i)]

\* outline_list[: req.section_count]
Planned(outline_list, section_count) ==
    SubSeq(outline_list, 1,
           IF Len(outline_list) < section_count THEN Len(outline_list)
           ELSE section_count)

\* No call in flight and none completed
NoArticle ==
    [pc |-> "idle", req |-> None, steps |-> << >>, intent_raw |-> None,
     critique_raw |-> None, outline_list |-> << >>, sections |-> << >>,
     refined |-> FALSE]

\* BlogArticleResponse
BlogArticleResponse(need_clarification, questions, outline, sections, final_article) ==
    [need_clarification |-> need_clarification, questions |-> questions,
     outline |-> outline, sections |-> sections,
     final_article |-> final_article]

----------------------------------------------------------------------------
(* Request bodies before validation.  A password typed by a client is the   *)
(* sequence of its characters; the validated body carries it as the bytes   *)
(* bcrypt reads and the bytes it ignores.                                   *)

password_min_length == 8
password_max_length == 128
bcrypt_max_bytes == 72

\* str.isupper, str.islower and str.isdigit on the characters used here
isupper(c) == c \in {"A", "B"}
islower(c) == c \in {"a", "b", "x"}
isdigit(c) == c \in {"1", "2"}

\* Field(min_length=8, max_length=128): the errors of the field at loc
StrField(loc, v, min_length, max_length) ==
    IF Len(v) < min_length THEN {<<loc, "string_too_short">>}
    ELSE IF Len(v) > max_length THEN {<<loc, "string_too_long">>}
    ELSE {}

\* validate_password / validate_new_password without the character classes
validate_password_length_only(loc, v) ==
    IF Len(v) < password_min_length THEN {<<loc, "value_error">>} ELSE {}

\* validate_password of UserCreate, validate_new_password of
\* UserChangePassword
validate_password(loc, v) ==
    LET has_upper == \E i \in DOMAIN v : isupper(v[i])
        has_lower == \E i \in DOMAIN v : islower(v[i])
        has_digit == \E i \in DOMAIN v : isdigit(v[i])
    IN  IF Len(v) < password_min_length THEN {<<loc, "value_error">>}
        ELSE IF ~(has_upper /\ has_lower /\ has_digit)
        THEN {<<loc, "value_error">>}
        ELSE {}

\* The password field: the Field constraints, then the validator
PasswordField(loc, v) ==
    LET field == StrField(loc, v, password_min_length, password_max_length)
    IN  IF field # {} THEN field ELSE validate_password(loc, v)

\* passwords_match: values holds the password only when it passed
passwords_match(loc, v, password_errors, password) ==
    IF password_errors = {} /\ v # password THEN {<<loc, "value_error">>}
    ELSE {}

\* EmailStr and the username field on the strings used here
EmailStr(v) == IF v = "not-an-email" THEN {<<"email", "value_error">>} ELSE {}
UsernameField(v) ==
    IF v = "al" THEN {<<"username", "string_too_short">>} ELSE {}

\* The validation errors of a body parsed as UserCreate
UserCreateErrors(body) ==
    LET password_errors == PasswordField("password", body.password)
    IN  EmailStr(body.email) \cup UsernameField(body.username)
          \cup password_errors
          \cup passwords_match("password_confirm", body.password_confirm,
                                password_errors, body.password)

\* The validation errors of a body parsed as UserChangePassword
UserChangePasswordErrors(body) ==
    LET password_errors == PasswordField("new_password", body.new_password)
    IN  password_errors
          \cup passwords_match("new_password_confirm",
                                body.new_password_confirm,
                                password_errors, body.new_password)

\* password.encode("utf-8") as bcrypt takes it: the first 72 bytes and the
\* rest
Encoded(v) ==
    [first72 |-> SubSeq(v, 1, IF Len(v) < bcrypt_max_bytes THEN Len(v)
                               ELSE bcrypt_max_bytes),
     rest |-> SubSeq(v, bcrypt_max_bytes + 1, Len(v))]

\* validation_exception_handler
validation_exception_handler(errors, tbl) ==
    Http(HTTP_422_UNPROCESSABLE_ENTITY, "Validation failed", Some(errors),
         tbl, {})

\* POST /auth/register with a raw body: the body is parsed as UserCreate
\* before the handler is called.
register_request(tbl, body) ==
    IF UserCreateErrors(body) # {}
    THEN validation_exception_handler(UserCreateErrors(body), tbl)
    ELSE register(tbl, [email |-> body.email, username |-> body.username,
                        full_name |-> None,
                        password |-> Encoded(body.password),
                        is_active |-> TRUE])

\* POST /auth/change-password with a raw body: the guard, then the body
\* parsed as UserChangePassword, then the handler.
change_password_request(tbl, current_user, body) ==
    IF ~current_user.ok
    THEN HttpError(current_user.status, current_user.detail, tbl)
    ELSE IF UserChangePasswordErrors(body) # {}
    THEN validation_exception_handler(UserChangePasswordErrors(body), tbl)
    ELSE change_user_password(tbl, current_user,
             [current_password |-> Encoded(body.current_password),
              new_password |-> Encoded(body.new_password)])

----------------------------------------------------------------------------
(* Inputs *)

Emails == {"a@x.com", "b@x.com"}
Usernames == {"alice", "bob"}
\* Passwords that pass the validators of UserCreate and UserChangePassword
\* (8 to 128 characters): one of 9 bytes, and two of 73 bytes that differ in
\* the last byte only
ShortPassword == [first72 |-> "Passw0rd1", rest |-> ""]
LongPassword(last) == [first72 |-> "Passw0rd2 and 63 more bytes", rest |-> last]
Passwords == {ShortPassword, LongPassword("x"), LongPassword("y")}
Slots == 1..MaxSlots
\* The server's offset from UTC in seconds: an hour west, UTC, an hour east
Offsets == {0 - Minutes(60), 0, Minutes(60)}
TokenTypes == {"access", "refresh", "password_reset"}

\* Subjects of tokens issued by calling the codec directly: the ids of users
\* that may or may not exist, and an email (the subject of a reset token).
Subjects == {Str(1), Str(MaxUsers + 1), "a@x.com"}

\* How far the clock moves in one step.
TickSteps ==
    {0, 1, Minutes(reset_token_expire_minutes),
     Minutes(access_token_expire_minutes),
     Days(refresh_token_expire_days)}

\* How far the clock moves between two requests of the HTTP API
ApiTickSteps ==
    {0, Minutes(access_token_expire_minutes),
     Days(refresh_token_expire_days) - Minutes(access_token_expire_minutes),
     Days(refresh_token_expire_days),
     Days(refresh_token_expire_days) + Minutes(access_token_expire_minutes)}

\* How far the clock moves between two requests that carry an access token
GuardTickSteps == {Days(refresh_token_expire_days)}

UserIds == 1..MaxUsers

UserLogins == [email : Emails, password : Passwords]

\* Registration bodies (they have passed the validation of UserCreate)
UserCreates ==
    [email : Emails, username : Usernames, full_name : {None},
     password : {ShortPassword}, is_active : BOOLEAN]

\* Registration bodies of two people who share neither email nor username
OwnCreates ==
    {c \in UserCreates :
        \/ c.email = "a@x.com" /\ c.username = "alice"
        \/ c.email = "b@x.com" /\ c.username = "bob"}

UserUpdates ==
    {[full_name |-> Some("Full Name"), is_active |-> None],
     [full_name |-> None, is_active |-> Some(TRUE)],
     [full_name |-> None, is_active |-> Some(FALSE)]}

\* Bodies of PUT /users/{user_id} that activate or deactivate the user
StatusUpdates == {u \in UserUpdates : u.is_active # None}

PasswordChanges == [current_password : Passwords, new_password : Passwords]

\* The password of registration replaced by another one
FirstPasswordChange ==
    [current_password |-> ShortPassword, new_password |-> LongPassword("x")]

\* A string that is no JWT, and a token of the server re-signed with another key
Garbage == [claims |-> NoClaims, sig |-> "malformed"]
Forged(token) == [token EXCEPT !.sig = "forged"]

\* A token signed with the server's key whose claims carry no sub
Subjectless(token) ==
    [token EXCEPT !.claims =
        [k \in DOMAIN token.claims \ {"sub"} |-> token.claims[k]]]

\* What a client can present: a token it holds, a forgery of one, or garbage.
Presentable == tokens \cup {Garbage} \cup {Forged(t) : t \in tokens}
Credentials == {None} \cup {Some(t) : t \in Presentable}

\* The tokens the guards are called with directly
Supplied == Presentable \cup {Subjectless(t) : t \in tokens}

\* The expires_delta and additional_claims arguments create_access_token is
\* called with: no ttl, timedelta(0), five minutes and the configured ttl;
\* no extra claims, a new key, and keys the function sets itself.
ExpiresDeltas ==
    {None, Some(0), Some(Minutes(5)), Some(Minutes(access_token_expire_minutes))}

AdditionalClaims ==
    {NoClaims, [role |-> "admin"], [type |-> "refresh"],
     [sub |-> Str(MaxUsers + 1), role |-> "admin"]}

\* Passwords as typed: Abxxxxx1 and variations of it that are too short,
\* lack a character class, or are padded to 73, 128 and 129 characters
Good8 == <<"A", "b", "x", "x", "x", "x", "x", "1">>
Pad(v, n) == v \o [i \in 1..n |-> "x"]
RawPasswords ==
    {Good8,
     SubSeq(Good8, 2, 8) \o <<"A">>,
     <<"A", "B", "A", "A", "A", "A", "A", "1">>,
     <<"a", "b", "x", "x", "x", "x", "x", "1">>,
     <<"A", "b", "x", "x", "x", "x", "x", "x">>,
     <<"A", "b", "1", "!", "!", "!", "!">>,
     Pad(Good8, bcrypt_max_bytes + 1 - Len(Good8)),
     Pad(Good8, password_max_length - Len(Good8)),
     Pad(Good8, password_max_length + 1 - Len(Good8))}

RawEmails == Emails \cup {"not-an-email"}
RawUsernames == Usernames \cup {"al"}

\* The confirmation repeats the password or is Abxxxxx1
RegisterBodies ==
    {body \in [email : RawEmails, username : RawUsernames,
                password : RawPasswords, password_confirm : RawPasswords] :
        body.password_confirm \in {body.password, Good8}}

ChangePasswordBodies ==
    {body \in [current_password :
                   {Good8, Pad(Good8, password_max_length - Len(Good8))},
                new_password : RawPasswords,
                new_password_confirm : RawPasswords] :
        body.new_password_confirm \in {body.new_password, Good8}}

\* Bodies of POST /llm/blog/generate (section_count has ge=3, le=8)
BlogArticleRequests ==
    [section_count : {section_count_min, section_count_min + 1},
     clarification_answers : {None, Some(<< >>), Some(<<"answer">>)}]

\* What the intent chain returns
IntentOutputs ==
    {Unparsable,
     LlmText([need_clarification |-> TRUE, questions |-> <<"question">>]),
     LlmText([need_clarification |-> TRUE, questions |-> << >>]),
     LlmText([need_clarification |-> TRUE]),
     LlmText([need_clarification |-> FALSE, intent_summary |-> "summary"]),
     LlmText([intent_summary |-> "summary"])}

\* What the outline chain returns: headings, no heading, or no outline
Headings(n) == [i \in 1..n |-> "heading " \o ToString(i)]
OutlineOutputs ==
    {Unparsable, LlmText([title |-> "title"])}
      \cup {LlmText([title |-> "title", outline |-> Headings(n)]) :
               n \in {0, 2, section_count_min, section_count_min + 2}}

\* What the critic chain returns
CritiqueOutputs ==
    {Unparsable,
     LlmText([ok |-> TRUE, issues |-> << >>, suggestion |-> ""]),
     LlmText([ok |-> FALSE, issues |-> <<"issue">>, suggestion |-> "fix"]),
     LlmText([issues |-> << >>])}

\* What the section, refine and editor chains return
ProseOutputs == {LlmText([text |-> "prose"])}

\* Bodies of concurrent POST /auth/change-password requests
RacingChanges ==
    {FirstPasswordChange,
     [current_password |-> LongPassword("x"), new_password |-> ShortPassword]}

\* The logins of the users who change their passwords
RacingLogins == [email : Emails, password : {ShortPassword, LongPassword("x")}]

\* The database as a request finds it
DbStates == {"up", "down"}

\* What generate_chat_response does with a request: it returns a response,
\* raises the ValueError of a missing API key, or fails in the LLM library
ChatOutcomes ==
    {[raised |-> "", message |-> "", value |-> Some("content")],
     [raised |-> "ValueError",
      message |-> "OPENROUTER_API_KEY is not configured", value |-> None],
     [raised |-> "ImportError",
      message |-> "No module named 'langchain_openai'", value |-> None]}

----------------------------------------------------------------------------
(* The state machine *)

Init ==
    /\ tz \in Offsets
    /\ clock = [sec |-> 0, frac |-> 0]
    /\ ticks = 0
    /\ users = << >>
    /\ tokens = {}
    /\ reg = [p \in Slots |-> Idle]
    /\ chg = [p \in Slots |-> NoCall]
    /\ blog = NoArticle
    /\ resp = [op |-> "init", status |-> HTTP_200_OK, detail |-> "",
               data |-> None]

\* A server whose local time is UTC
InitUtc == Init /\ tz = 0

\* Depends(get_current_user) and Depends(get_current_superuser) resolved for
\* a request with these credentials
CurrentUser(tbl, credentials, now, offset) ==
    get_current_user(tbl, get_current_user_id(credentials, now, offset))

CurrentSuperuser(tbl, credentials, now, offset) ==
    get_current_superuser(CurrentUser(tbl, credentials, now, offset))

\* An endpoint answers: the table, the response, and the tokens the client
\* holds from now on.
Answer(op, out) ==
    /\ users' = out.users
    /\ tokens' = IF out.issued # {} THEN out.issued ELSE tokens
    /\ resp' = [op |-> op, status |-> out.status, detail |-> out.detail,
                data |-> out.data]

Tick(d, f, max) ==
    /\ ticks < max
    /\ d > 0 \/ f > clock.frac
    /\ clock' = [sec |-> clock.sec + d, frac |-> f]
    /\ ticks' = ticks + 1
    /\ UNCHANGED <<tz, users, tokens, reg, chg, blog, resp>>

\* An operator makes a user a superuser in the database; no endpoint does
\* (the superuser fixture of the tests sets the column by hand).
Promote(user_id) ==
    /\ get_user_by_id(users, user_id) # None
    /\ ~get_user_by_id(users, user_id)[1].is_superuser
    /\ users' = UpdateRow(users, user_id, [is_superuser |-> TRUE])
    /\ UNCHANGED <<tz, clock, ticks, tokens, reg, chg, blog, resp>>

\* The codec called directly (as the test fixtures do)
IssueToken(kind, subject) ==
    LET token == issue_token(kind, subject, clock)
    IN  /\ Answer("issue",
                  Http(HTTP_200_OK, "", Some(token), users, {token}))
        /\ UNCHANGED <<tz, clock, ticks, reg, chg, blog>>

\* create_access_token called with all its arguments
CreateAccessToken(subject, expires_delta, additional_claims) ==
    \E token \in {create_access_token(subject, expires_delta,
                                       additional_claims, clock)} :
        /\ Answer("create_access_token",
                  Http(HTTP_200_OK, "", Some(token), users, {token}))
        /\ UNCHANGED <<tz, clock, ticks, reg, chg, blog>>

\* verify_token called directly; UnauthorizedError carries status 401.
VerifyToken(token, token_type) ==
    LET verified == verify_token(token, token_type, clock, tz)
    IN  /\ Answer("verify_token",
                  IF verified.ok
                  THEN Http(HTTP_200_OK, "", Some(verified.payload), users, {})
                  ELSE HttpError(HTTP_401_UNAUTHORIZED, verified.err, users))
        /\ UNCHANGED <<tz, clock, ticks, reg, chg, blog>>

\* A request with a bearer credential resolved by get_current_user_id
GetCurrentUserId(token) ==
    \E got \in {get_current_user_id(Some(token), clock, tz)} :
        /\ Answer("get_current_user_id",
                  IF got.ok THEN Http(HTTP_200_OK, "", got.user, users, {})
                  ELSE HttpError(got.status, got.detail, users))
        /\ UNCHANGED <<tz, clock, ticks, reg, chg, blog>>

\* A request to an endpoint that Depends on optional_auth
OptionalAuth(credentials) ==
    \E got \in {optional_auth(credentials, clock, tz)} :
        /\ Answer("optional_auth",
                  IF got.ok THEN Http(HTTP_200_OK, "", got.user, users, {})
                  ELSE HttpError(got.status, got.detail, users))
        /\ UNCHANGED <<tz, clock, ticks, reg, chg, blog>>

\* Requests while the database is up or down
LoginDb(db, user_login) ==
    /\ Answer("login", login_db(db, users, user_login, clock))
    /\ UNCHANGED <<tz, clock, ticks, reg, chg, blog>>

RefreshTokenDb(db, token) ==
    /\ Answer("refresh", refresh_token_db(db, users, token, clock, tz))
    /\ UNCHANGED <<tz, clock, ticks, reg, chg, blog>>

GetCurrentUserInfoDb(db, credentials) ==
    \E current_user \in
            {get_current_user_db(db, users,
                 get_current_user_id(credentials, clock, tz))} :
        /\ Answer("me", get_current_user_info(users, current_user))
        /\ UNCHANGED <<tz, clock, ticks, reg, chg, blog>>

ReadinessCheck(db) ==
    /\ Answer("readiness_check", readiness_check(db, users, clock))
    /\ UNCHANGED <<tz, clock, ticks, reg, chg, blog>>

\* Requests with bodies that have not been validated yet
RegisterRequest(body) ==
    \E out \in {register_request(users, body)} :
        /\ out.status # HTTP_200_OK \/ Len(users) < MaxUsers
        /\ Answer("register", out)
        /\ UNCHANGED <<tz, clock, ticks, reg, chg, blog>>

LoginRequest(email, password) ==
    /\ Answer("login",
              login(users, [email |-> email, password |-> Encoded(password)],
                    clock))
    /\ UNCHANGED <<tz, clock, ticks, reg, chg, blog>>

ChangePasswordRequest(credentials, body) ==
    \E current_user \in {CurrentUser(users, credentials, clock, tz)} :
        /\ Answer("change_password",
                  change_password_request(users, current_user, body))
        /\ UNCHANGED <<tz, clock, ticks, reg, chg, blog>>

Chat(credentials, outcome) ==
    \E user_id \in {optional_auth(credentials, clock, tz)} :
        /\ Answer("chat", chat(users, user_id, outcome))
        /\ UNCHANGED <<tz, clock, ticks, reg, chg, blog>>

Login(user_login) ==
    /\ Answer("login", login(users, user_login, clock))
    /\ UNCHANGED <<tz, clock, ticks, reg, chg, blog>>

RefreshToken(token) ==
    /\ Answer("refresh", refresh_token(users, token, clock, tz))
    /\ UNCHANGED <<tz, clock, ticks, reg, chg, blog>>

\* POST /auth/refresh by a client that keeps the token it presented next to
\* the pair it receives (the server stores no token and revokes none)
RefreshTokenKept(token) ==
    \E out \in {refresh_token(users, token, clock, tz)} :
        /\ Answer("refresh", [out EXCEPT !.issued =
                                 IF out.issued # {} THEN out.issued \cup tokens
                                 ELSE {}])
        /\ UNCHANGED <<tz, clock, ticks, reg, chg, blog>>

GetCurrentUserInfo(credentials) ==
    \E current_user \in {CurrentUser(users, credentials, clock, tz)} :
        /\ Answer("me", get_current_user_info(users, current_user))
        /\ UNCHANGED <<tz, clock, ticks, reg, chg, blog>>

ChangeUserPassword(credentials, password_change) ==
    \E current_user \in {CurrentUser(users, credentials, clock, tz)} :
        /\ Answer("change_password", 
                  change_user_password(users, current_user, password_change))
        /\ UNCHANGED <<tz, clock, ticks, reg, chg, blog>>

ListUsers(credentials) ==
    \E current_user \in {CurrentSuperuser(users, credentials, clock, tz)} :
        /\ Answer("list_users", list_users(users, current_user, 1, 20))
        /\ UNCHANGED <<tz, clock, ticks, reg, chg, blog>>

GetUser(credentials, user_id) ==
    \E current_user \in {CurrentUser(users, credentials, clock, tz)} :
        /\ Answer("get_user", get_user(users, current_user, user_id))
        /\ UNCHANGED <<tz, clock, ticks, reg, chg, blog>>

UpdateUserInfo(credentials, user_id, user_update) ==
    \E current_user \in {CurrentUser(users, credentials, clock, tz)} :
        /\ Answer("update_user", 
                  update_user_info(users, current_user, user_id, user_update))
        /\ UNCHANGED <<tz, clock, ticks, reg, chg, blog>>

GetUsersMe(credentials) ==
    \E current_user \in {CurrentUser(users, credentials, clock, tz)} :
        /\ Answer("get_users_me", users_me(users, current_user))
        /\ UNCHANGED <<tz, clock, ticks, reg, chg, blog>>

PutUsersMe(credentials, user_update) ==
    \E current_user \in {CurrentUser(users, credentials, clock, tz)} :
        /\ Answer("put_users_me", users_me(users, current_user))
        /\ UNCHANGED <<tz, clock, ticks, reg, chg, blog>>

\* POST /auth/register: no guard, create_user starts
Register(p, user_create) ==
    /\ reg[p].pc = "idle"
    /\ Len(users) < MaxUsers
    /\ reg' = [reg EXCEPT ![p] = [pc |-> "check_email", via |-> "register",
                                  user_create |-> Some(user_create)]]
    /\ UNCHANGED <<tz, clock, ticks, users, tokens, chg, blog, resp>>

\* POST /users: the superuser guard, then create_user starts
CreateNewUser(p, credentials, user_create) ==
    /\ reg[p].pc = "idle"
    /\ Len(users) < MaxUsers
    /\ \E current_user \in {CurrentSuperuser(users, credentials, clock, tz)} :
          IF current_user.ok
          THEN /\ reg' = [reg EXCEPT ![p] =
                             [pc |-> "check_email", via |-> "create_new_user",
                              user_create |-> Some(user_create)]]
               /\ UNCHANGED <<users, tokens, resp>>
          ELSE /\ Answer("create_new_user",
                         HttpError(current_user.status, current_user.detail,
                                   users))
               /\ UNCHANGED reg
    /\ UNCHANGED <<tz, clock, ticks, chg, blog>>

\* One step of a create_user call: it goes on to next_pc, or it raises and
\* its endpoint answers 400, or (at the last step) it returns and its
\* endpoint answers 200 with the view of the new user.
CreateUserStep(p, pc, next_pc, got) ==
    LET call == reg[p]
    IN  /\ call.pc = pc
        /\ got.raised # "" \/ Len(users) < MaxUsers
        /\ IF got.raised # ""
           THEN /\ Answer(call.via,
                          HttpError(HTTP_400_BAD_REQUEST, got.message, got.users))
                /\ reg' = [reg EXCEPT ![p] = Idle]
           ELSE IF next_pc = "idle"
           THEN /\ Answer(call.via,
                          Http(HTTP_200_OK, SuccessMessage(call.via),
                               Some(UserView(got.value[1])), got.users, {}))
                /\ reg' = [reg EXCEPT ![p] = Idle]
           ELSE /\ reg' = [reg EXCEPT ![p].pc = next_pc]
                /\ UNCHANGED <<users, tokens, resp>>
        /\ UNCHANGED <<tz, clock, ticks, chg, blog>>

CreateUserCheckEmail(p) ==
    CreateUserStep(p, "check_email", "check_username",
                   create_user_check_email(users, reg[p].user_create[1]))

CreateUserCheckUsername(p) ==
    CreateUserStep(p, "check_username", "insert",
                   create_user_check_username(users, reg[p].user_create[1]))

CreateUserInsert(p) ==
    CreateUserStep(p, "insert", "idle",
                   create_user_insert(users, reg[p].user_create[1]))

\* POST /llm/blog/generate.  The identity optional_auth resolves is only
\* logged.  generate_blog answers 400 for a ValueError and 500 for every
\* other exception, and 200 with the BlogArticleResponse otherwise.
BlogRespond(status, detail, data) ==
    resp' = [op |-> "generate_blog", status |-> status, detail |-> detail,
             data |-> data]

\* An LLM call raised: the workflow ends there
BlogFail(step) ==
    /\ blog' = [blog EXCEPT !.pc = "done", !.steps = Append(@, step)]
    /\ BlogRespond(HTTP_500_INTERNAL_SERVER_ERROR, "LLM call failed", None)

\* The request arrives; _select_llm_provider builds the client or raises the
\* ValueError of a missing API key.
GenerateBlog(req, provider) ==
    /\ blog.pc \in {"idle", "done"}
    /\ IF provider = "ValueError"
       THEN /\ blog' = [NoArticle EXCEPT !.pc = "done", !.req = Some(req)]
            /\ BlogRespond(HTTP_400_BAD_REQUEST,
                           "OPENROUTER_API_KEY is not configured", None)
       ELSE /\ blog' = [NoArticle EXCEPT !.pc = "intent", !.req = Some(req)]
            /\ UNCHANGED resp
    /\ UNCHANGED <<tz, clock, ticks, users, tokens, reg, chg>>

\* 1) the intent chain; the workflow returns the questions when
\* clarification is needed and the request carries no answers.
IntentStep(intent_raw) ==
    /\ blog.pc = "intent"
    /\ IF intent_raw.raised THEN BlogFail("intent")
       ELSE LET intent_obj == safe_json_loads(intent_raw)
                asked == Get(intent_obj, "questions", << >>)
                questions == IF asked # << >> THEN asked ELSE DefaultQuestions
            IN  IF /\ Get(intent_obj, "need_clarification", FALSE)
                   /\ NoAnswers(blog.req[1])
                THEN /\ blog' = [blog EXCEPT !.pc = "done",
                                             !.steps = Append(@, "intent"),
                                             !.intent_raw = Some(intent_raw)]
                     /\ BlogRespond(HTTP_200_OK, "ok",
                            Some(BlogArticleResponse(TRUE, questions, << >>,
                                                     << >>, None)))
                ELSE /\ blog' = [blog EXCEPT !.pc = "outline",
                                             !.steps = Append(@, "intent"),
                                             !.intent_raw = Some(intent_raw)]
                     /\ UNCHANGED resp
    /\ UNCHANGED <<tz, clock, ticks, users, tokens, reg, chg>>

\* 2) the outline chain, with the fallback outline
OutlineStep(outline_raw) ==
    /\ blog.pc = "outline"
    /\ IF outline_raw.raised THEN BlogFail("outline")
       ELSE LET outline_obj == safe_json_loads(outline_raw)
                outline == Get(outline_obj, "outline", << >>)
                outline_list == IF outline = << >> THEN FallbackOutline
                                ELSE outline
            IN  /\ blog' = [blog EXCEPT !.pc = "section",
                                        !.steps = Append(@, "outline"),
                                        !.outline_list = outline_list]
                /\ UNCHANGED resp
    /\ UNCHANGED <<tz, clock, ticks, users, tokens, reg, chg>>

\* 3) one section chain for each heading of outline_list[:section_count]
SectionStep(section_text) ==
    /\ blog.pc = "section"
    /\ IF section_text.raised THEN BlogFail("section")
       ELSE LET planned == Planned(blog.outline_list,
                                   blog.req[1].section_count)
                sections == Append(blog.sections,
                                   planned[Len(blog.sections) + 1])
            IN  /\ blog' = [blog EXCEPT
                               !.pc = IF Len(sections) = Len(planned)
                                      THEN "critic" ELSE "section",
                               !.steps = Append(@, "section"),
                               !.sections = sections]
                /\ UNCHANGED resp
    /\ UNCHANGED <<tz, clock, ticks, users, tokens, reg, chg>>

\* 4) the critic chain; a critique that json.loads does not parse counts
\* as ok.
CriticStep(critique_raw) ==
    /\ blog.pc = "critic"
    /\ IF critique_raw.raised THEN BlogFail("critic")
       ELSE LET critique == IF critique_raw.parses THEN critique_raw.obj
                            ELSE [ok |-> TRUE, issues |-> << >>,
                                  suggestion |-> ""]
            IN  /\ blog' = [blog EXCEPT
                               !.pc = IF ~Get(critique, "ok", TRUE)
                                      THEN "refine" ELSE "editor",
                               !.steps = Append(@, "critic"),
                               !.critique_raw = Some(critique_raw)]
                /\ UNCHANGED resp
    /\ UNCHANGED <<tz, clock, ticks, users, tokens, reg, chg>>

\* the refine chain rewrites the sections' text
RefineStep(refined_sections_text) ==
    /\ blog.pc = "refine"
    /\ IF refined_sections_text.raised THEN BlogFail("refine")
       ELSE /\ blog' = [blog EXCEPT !.pc = "editor",
                                    !.steps = Append(@, "refine"),
                                    !.refined = TRUE]
            /\ UNCHANGED resp
    /\ UNCHANGED <<tz, clock, ticks, users, tokens, reg, chg>>

\* the editor chain, and the article is returned
EditorStep(final_article) ==
    /\ blog.pc = "editor"
    /\ IF final_article.raised THEN BlogFail("editor")
       ELSE /\ blog' = [blog EXCEPT !.pc = "done",
                                    !.steps = Append(@, "editor")]
            /\ BlogRespond(HTTP_200_OK, "ok",
                   Some(BlogArticleResponse(
                            FALSE, << >>,
                            Planned(blog.outline_list,
                                    blog.req[1].section_count),
                            blog.sections, Some("final article"))))
    /\ UNCHANGED <<tz, clock, ticks, users, tokens, reg, chg>>

\* POST /auth/change-password: the guard, and change_password starts
ChangePasswordStart(p, credentials, password_change) ==
    /\ chg[p].pc = "idle"
    /\ \E current_user \in {CurrentUser(users, credentials, clock, tz)} :
          IF current_user.ok
          THEN /\ chg' = [chg EXCEPT ![p] =
                             [pc |-> "read", user_id |-> current_user.user[1].id,
                              password_change |-> Some(password_change),
                              db_user |-> None]]
               /\ UNCHANGED <<users, tokens, resp>>
          ELSE /\ Answer("change_password",
                         HttpError(current_user.status, current_user.detail,
                                   users))
               /\ UNCHANGED chg
    /\ UNCHANGED <<tz, clock, ticks, reg, blog>>

\* The row is read and the current password checked against it; the
\* endpoint turns NotFoundError and ValidationError into 400.
ChangePasswordRead(p) ==
    /\ chg[p].pc = "read"
    /\ \E db_user \in {get_user_by_id(users, chg[p].user_id)} :
          IF db_user = None
          THEN /\ Answer("change_password",
                         HttpError(HTTP_400_BAD_REQUEST, "User not found", users))
               /\ chg' = [chg EXCEPT ![p] = NoCall]
          ELSE IF ~change_password_check(db_user[1], chg[p].password_change[1])
          THEN /\ Answer("change_password",
                         HttpError(HTTP_400_BAD_REQUEST,
                                   "Current password is incorrect", users))
               /\ chg' = [chg EXCEPT ![p] = NoCall]
          ELSE /\ chg' = [chg EXCEPT ![p].pc = "write", ![p].db_user = db_user]
               /\ UNCHANGED <<users, tokens, resp>>
    /\ UNCHANGED <<tz, clock, ticks, reg, blog>>

\* The new hash is written and committed
ChangePasswordWrite(p) ==
    /\ chg[p].pc = "write"
    /\ users' = change_password_write(users, chg[p].user_id,
                                      chg[p].password_change[1])
    /\ chg' = [chg EXCEPT ![p].pc = "return"]
    /\ UNCHANGED <<tz, clock, ticks, tokens, reg, blog, resp>>

\* The row is read again and returned
ChangePasswordReturn(p) ==
    /\ chg[p].pc = "return"
    /\ Answer("change_password",
              Http(HTTP_200_OK, "Password changed successfully",
                   Some(UserView(get_user_by_id(users, chg[p].user_id)[1])),
                   users, {}))
    /\ chg' = [chg EXCEPT ![p] = NoCall]
    /\ UNCHANGED <<tz, clock, ticks, reg, blog>>

\* A registration that no other request interleaves with
RegisterCall(user_create) ==
    \E out \in {register(users, user_create)} :
        /\ reg[1].pc = "idle"
        /\ out.status # HTTP_200_OK \/ Len(users) < MaxUsers
        /\ Answer("register", out)
        /\ UNCHANGED <<tz, clock, ticks, reg, chg, blog>>

----------------------------------------------------------------------------
(* The whole system: every operation, requests interleaving freely *)

Next ==
    \/ \E d \in TickSteps \cup ApiTickSteps, f \in {0, 1} : Tick(d, f, MaxCodecTicks)
    \/ \E user_id \in UserIds : Promote(user_id)
    \/ \E kind \in TokenTypes, subject \in Subjects : IssueToken(kind, subject)
    \/ \E token \in Presentable, token_type \in TokenTypes :
          VerifyToken(token, token_type)
    \/ \E user_login \in UserLogins : Login(user_login)
    \/ \E token \in Presentable : RefreshToken(token)
    \/ \E credentials \in Credentials : GetCurrentUserInfo(credentials)
    \/ \E credentials \in Credentials, body \in PasswordChanges :
          ChangeUserPassword(credentials, body)
    \/ \E credentials \in Credentials : ListUsers(credentials)
    \/ \E credentials \in Credentials, user_id \in UserIds :
          GetUser(credentials, user_id)
    \/ \E credentials \in Credentials, user_id \in UserIds, body \in UserUpdates :
          UpdateUserInfo(credentials, user_id, body)
    \/ \E credentials \in Credentials : GetUsersMe(credentials)
    \/ \E credentials \in Credentials, body \in UserUpdates :
          PutUsersMe(credentials, body)
    \/ \E p \in Slots, user_create \in UserCreates : Register(p, user_create)
    \/ \E p \in Slots, credentials \in Credentials, user_create \in UserCreates :
          CreateNewUser(p, credentials, user_create)
    \/ \E p \in Slots : CreateUserCheckEmail(p)
    \/ \E p \in Slots : CreateUserCheckUsername(p)
    \/ \E p \in Slots : CreateUserInsert(p)
    \/ \E credentials \in Credentials, outcome \in ChatOutcomes :
          Chat(credentials, outcome)
    \/ \E subject \in Subjects, expires_delta \in ExpiresDeltas,
          additional_claims \in AdditionalClaims :
          CreateAccessToken(subject, expires_delta, additional_claims)
    \/ \E db \in DbStates : ReadinessCheck(db)
    \/ \E p \in Slots, credentials \in Credentials, body \in RacingChanges :
          ChangePasswordStart(p, credentials, body)
    \/ \E p \in Slots : ChangePasswordRead(p)
    \/ \E p \in Slots : ChangePasswordWrite(p)
    \/ \E p \in Slots : ChangePasswordReturn(p)
    \/ \E req \in BlogArticleRequests, provider \in {"", "ValueError"} :
          GenerateBlog(req, provider)
    \/ \E out \in IntentOutputs \cup {LlmError} : IntentStep(out)
    \/ \E out \in OutlineOutputs \cup {LlmError} : OutlineStep(out)
    \/ \E out \in ProseOutputs \cup {LlmError} : SectionStep(out)
    \/ \E out \in CritiqueOutputs \cup {LlmError} : CriticStep(out)
    \/ \E out \in ProseOutputs \cup {LlmError} : RefineStep(out)
    \/ \E out \in ProseOutputs \cup {LlmError} : EditorStep(out)

Spec == Init /\ [][Next]_vars

----------------------------------------------------------------------------
(* The parts of the system the properties below are checked on: each keeps *)
(* the operations its properties are about and those that build the states *)
(* they start from.                                                        *)

\* The token codec: tokens are issued, time passes, tokens are verified.
NextCodec ==
    \/ \E d \in TickSteps, f \in {0, 1} : Tick(d, f, MaxCodecTicks)
    \/ \E kind \in TokenTypes, subject \in Subjects : IssueToken(kind, subject)
    \/ \E token \in Presentable, token_type \in TokenTypes :
          VerifyToken(token, token_type)

SpecCodec == Init /\ [][NextCodec]_vars

\* The issuing functions with every argument, and the verification of what
\* they issued
NextIssue ==
    \/ \E d \in TickSteps, f \in {0, 1} : Tick(d, f, MaxCodecTicks)
    \/ \E kind \in TokenTypes, subject \in Subjects : IssueToken(kind, subject)
    \/ \E subject \in Subjects, expires_delta \in ExpiresDeltas,
          additional_claims \in AdditionalClaims :
          CreateAccessToken(subject, expires_delta, additional_claims)
    \/ \E token \in Presentable, token_type \in TokenTypes :
          VerifyToken(token, token_type)

SpecIssue == Init /\ [][NextIssue]_vars

\* Concurrent registrations
NextRegister ==
    \/ \E p \in Slots, user_create \in UserCreates : Register(p, user_create)
    \/ \E p \in Slots : CreateUserCheckEmail(p)
    \/ \E p \in Slots : CreateUserCheckUsername(p)
    \/ \E p \in Slots : CreateUserInsert(p)

SpecRegister == InitUtc /\ [][NextRegister]_vars

\* Accounts: registration, login and password change
NextAccount ==
    \/ \E d \in ApiTickSteps, f \in {0, 1} : Tick(d, f, MaxTicks)
    \/ \E user_create \in OwnCreates : RegisterCall(user_create)
    \/ \E user_login \in UserLogins : Login(user_login)
    \/ \E credentials \in Credentials, body \in PasswordChanges :
          ChangeUserPassword(credentials, body)

SpecAccount == Init /\ [][NextAccount]_vars

\* The bearer-protected endpoints
NextGuard ==
    \/ \E user_id \in UserIds : Promote(user_id)
    \/ \E d \in GuardTickSteps : Tick(d, 0, MaxTicks)
    \/ \E subject \in Subjects : IssueToken("access", subject)
    \/ \E user_create \in OwnCreates : RegisterCall(user_create)
    \/ \E credentials \in Credentials : GetCurrentUserInfo(credentials)
    \/ \E credentials \in Credentials :
          ChangeUserPassword(credentials, FirstPasswordChange)
    \/ \E credentials \in Credentials : ListUsers(credentials)
    \/ \E credentials \in Credentials, user_id \in UserIds :
          GetUser(credentials, user_id)
    \/ \E credentials \in Credentials, user_id \in UserIds, body \in StatusUpdates :
          UpdateUserInfo(credentials, user_id, body)
    \/ \E credentials \in Credentials : GetUsersMe(credentials)
    \/ \E credentials \in Credentials, body \in StatusUpdates :
          PutUsersMe(credentials, body)
    \/ \E credentials \in Credentials, user_create \in OwnCreates :
          CreateNewUser(1, credentials, user_create)
    \/ CreateUserCheckEmail(1)
    \/ CreateUserCheckUsername(1)
    \/ CreateUserInsert(1)

SpecGuard == InitUtc /\ [][NextGuard]_vars

\* Token refresh
NextRefresh ==
    \/ \E d \in ApiTickSteps, f \in {0, 1} : Tick(d, f, MaxTicks)
    \/ \E kind \in TokenTypes, subject \in Subjects : IssueToken(kind, subject)
    \/ \E user_create \in OwnCreates : RegisterCall(user_create)
    \/ \E user_login \in UserLogins : Login(user_login)
    \/ \E token \in Presentable : RefreshToken(token)

SpecRefresh == Init /\ [][NextRefresh]_vars

\* Refresh tokens used again and again
NextReuse ==
    \/ \E d \in ApiTickSteps, f \in {0, 1} : Tick(d, f, MaxTicks)
    \/ \E user_create \in OwnCreates : RegisterCall(user_create)
    \/ \E user_login \in UserLogins : Login(user_login)
    \/ \E token \in Presentable : RefreshTokenKept(token)

SpecReuse == Init /\ [][NextReuse]_vars

\* The dependencies that resolve a credential to a user id
NextDeps ==
    \/ \E d \in TickSteps, f \in {0, 1} : Tick(d, f, MaxTicks)
    \/ \E kind \in TokenTypes, subject \in Subjects : IssueToken(kind, subject)
    \/ \E token \in Supplied : GetCurrentUserId(token)
    \/ \E credentials \in Credentials \cup {Some(t) : t \in Supplied} :
          OptionalAuth(credentials)

SpecDeps == Init /\ [][NextDeps]_vars

\* Login, refresh and a bearer-protected request while the database comes
\* and goes
NextOutage ==
    \/ \E d \in ApiTickSteps : Tick(d, 0, MaxTicks)
    \/ \E user_create \in OwnCreates : RegisterCall(user_create)
    \/ \E db \in DbStates, user_login \in UserLogins : LoginDb(db, user_login)
    \/ \E db \in DbStates, token \in Presentable : RefreshTokenDb(db, token)
    \/ \E db \in DbStates, credentials \in Credentials :
          GetCurrentUserInfoDb(db, credentials)
    \/ \E db \in DbStates : ReadinessCheck(db)

SpecOutage == InitUtc /\ [][NextOutage]_vars

\* Registration and change of password with every kind of body
NextValidate ==
    \/ \E body \in RegisterBodies : RegisterRequest(body)
    \/ \E email \in Emails, password \in RawPasswords :
          LoginRequest(email, password)
    \/ \E credentials \in Credentials, body \in ChangePasswordBodies :
          ChangePasswordRequest(credentials, body)

SpecValidate == InitUtc /\ [][NextValidate]_vars

\* The operations of the HTTP API on users and tokens, and nothing else
NextApi ==
    \/ \E user_create \in OwnCreates : Register(1, user_create)
    \/ \E credentials \in Credentials, user_create \in OwnCreates :
          CreateNewUser(1, credentials, user_create)
    \/ CreateUserCheckEmail(1)
    \/ CreateUserCheckUsername(1)
    \/ CreateUserInsert(1)
    \/ \E user_login \in UserLogins : Login(user_login)
    \/ \E token \in Presentable : RefreshToken(token)
    \/ \E credentials \in Credentials : GetCurrentUserInfo(credentials)
    \/ \E credentials \in Credentials :
          ChangeUserPassword(credentials, FirstPasswordChange)
    \/ \E credentials \in Credentials : ListUsers(credentials)
    \/ \E credentials \in Credentials, user_id \in UserIds :
          GetUser(credentials, user_id)
    \/ \E credentials \in Credentials, user_id \in UserIds, body \in StatusUpdates :
          UpdateUserInfo(credentials, user_id, body)
    \/ \E credentials \in Credentials : GetUsersMe(credentials)
    \/ \E credentials \in Credentials, body \in StatusUpdates :
          PutUsersMe(credentials, body)

SpecApi == InitUtc /\ [][NextApi]_vars

\* Concurrent changes of password
NextChange ==
    \/ \E user_create \in {c \in OwnCreates : c.is_active} :
          RegisterCall(user_create)
    \/ \E user_login \in RacingLogins : Login(user_login)
    \/ \E p \in Slots, credentials \in Credentials, body \in RacingChanges :
          ChangePasswordStart(p, credentials, body)
    \/ \E p \in Slots : ChangePasswordRead(p)
    \/ \E p \in Slots : ChangePasswordWrite(p)
    \/ \E p \in Slots : ChangePasswordReturn(p)

SpecChange == InitUtc /\ [][NextChange]_vars

\* Blog generation
NextBlog ==
    \/ \E req \in BlogArticleRequests, provider \in {"", "ValueError"} :
          GenerateBlog(req, provider)
    \/ \E out \in IntentOutputs \cup {LlmError} : IntentStep(out)
    \/ \E out \in OutlineOutputs \cup {LlmError} : OutlineStep(out)
    \/ \E out \in ProseOutputs \cup {LlmError} : SectionStep(out)
    \/ \E out \in CritiqueOutputs \cup {LlmError} : CriticStep(out)
    \/ \E out \in ProseOutputs \cup {LlmError} : RefineStep(out)
    \/ \E out \in ProseOutputs \cup {LlmError} : EditorStep(out)

SpecBlog == InitUtc /\ [][NextBlog]_vars

\* The endpoints in which an exception that is no domain error can be
\* raised: concurrent registrations, and the chat
NextErrors ==
    \/ NextRegister
    \/ \E credentials \in Credentials, outcome \in ChatOutcomes :
          Chat(credentials, outcome)

SpecErrors == InitUtc /\ [][NextErrors]_vars

----------------------------------------------------------------------------
(* Properties of the token codec, checked on SpecCodec *)

\* C1: for every subject and every token kind, a token issued now and
\* verified at once with the same type is accepted, and the claims returned
\* carry that subject as sub and that kind as type.
C1_IssuedTokenVerifiesAtOnce ==
    \A kind \in TokenTypes, subject \in Subjects :
        LET verified ==
                verify_token(issue_token(kind, subject, clock), kind, clock, tz)
        IN  /\ verified.ok
            /\ verified.payload["sub"] = subject
            /\ verified.payload["type"] = kind

\* C2: a token of the server verified against another type than its own
\* always fails, and fails with "Invalid token type", whatever its expiry.
C2_WrongTypeFailsWithInvalidTokenType ==
    \A token \in tokens, token_type \in TokenTypes :
        token_type # token.claims["type"] =>
            LET verified == verify_token(token, token_type, clock, tz)
            IN  ~verified.ok /\ verified.err = ErrWrongType

\* C3: a correctly signed token verified against its own type fails as
\* expired whenever exp <= now, the instant exp = now included.
C3_ExpiredWheneverExpNotAfterNow ==
    \A token \in tokens :
        token.claims["exp"] <= Timegm(clock) =>
            LET verified ==
                    verify_token(token, token.claims["type"], clock, tz)
            IN  ~verified.ok /\ verified.err \in {ErrExpired, ErrSignatureExpired}

----------------------------------------------------------------------------
(* Properties of accounts, checked on SpecAccount *)

\* The table after a login of the user with this id at this time
WithLastLogin(tbl, user_id, now) ==
    [i \in DOMAIN tbl |->
        IF tbl[i].id = user_id THEN [tbl[i] EXCEPT !.last_login = Some(now)]
        ELSE tbl[i]]

\* C4: login answers 200 with an access and a refresh token whose sub is the
\* user's id as a string, and sets that user's last_login, exactly when a
\* user with the email exists, the password matches the stored hash and the
\* user is active; otherwise it answers 401, issues no token and changes
\* nothing.
C4_LoginExactlyForActiveUserWithPassword ==
    \A user_login \in UserLogins :
        LET out == login(users, user_login, clock)
            user == get_user_by_email(users, user_login.email)
            accepted ==
                /\ user # None
                /\ verify_password(user_login.password, user[1].hashed_password)
                /\ user[1].is_active
        IN  IF accepted
            THEN /\ out.status = HTTP_200_OK
                 /\ out.data # None
                 /\ out.data[1].access_token.claims["sub"] = Str(user[1].id)
                 /\ out.data[1].access_token.claims["type"] = "access"
                 /\ out.data[1].refresh_token.claims["sub"] = Str(user[1].id)
                 /\ out.data[1].refresh_token.claims["type"] = "refresh"
                 /\ out.issued =
                        {out.data[1].access_token, out.data[1].refresh_token}
                 /\ out.users = WithLastLogin(users, user[1].id, clock)
            ELSE /\ out.status = HTTP_401_UNAUTHORIZED
                 /\ out.data = None
                 /\ out.issued = {}
                 /\ out.users = users

\* A login has succeeded and the user's last_login is set.
C4_Witness ==
    /\ resp.op = "login"
    /\ resp.status = HTTP_200_OK
    /\ \E i \in DOMAIN users :
          /\ Str(users[i].id) = resp.data[1].access_token.claims["sub"]
          /\ users[i].last_login # None

\* C7: change_password with a current_password that does not match the stored
\* hash fails (the endpoint answers 400) and leaves every field of every
\* user as it was.
C7_WrongCurrentPasswordChangesNothing ==
    /\ \A user_id \in UserIds, body \in PasswordChanges :
          LET user == get_user_by_id(users, user_id)
              out == change_password(users, user_id, body)
          IN  (/\ user # None
               /\ ~verify_password(body.current_password, user[1].hashed_password))
              => (out.raised # "" /\ out.users = users)
    /\ \A credentials \in Credentials, body \in PasswordChanges :
          LET current == CurrentUser(users, credentials, clock, tz)
              out == change_user_password(users, current, body)
          IN  (/\ current.ok
               /\ ~verify_password(body.current_password,
                                   current.user[1].hashed_password))
              => (/\ out.status = HTTP_400_BAD_REQUEST
                  /\ out.issued = {}
                  /\ out.users = users)

\* An authenticated user's change of password has been refused for the
\* wrong current password.
C7_Witness ==
    /\ resp.op = "change_password"
    /\ resp.status = HTTP_400_BAD_REQUEST
    /\ resp.detail = "Current password is incorrect"

\* C8: once change_password has succeeded for an active user with new
\* password n, a login with the user's email and n succeeds and a login with
\* the previous password, when it differs from n, answers 401.
C8_NewPasswordLogsInOldDoesNot ==
    /\ \A user_id \in UserIds, body \in PasswordChanges :
          LET user == get_user_by_id(users, user_id)
              out == change_password(users, user_id, body)
          IN  (user # None /\ user[1].is_active /\ out.raised = "") =>
                 /\ login(out.users,
                          [email |-> user[1].email, password |-> body.new_password],
                          clock).status = HTTP_200_OK
                 /\ body.current_password # body.new_password =>
                       login(out.users,
                             [email |-> user[1].email,
                              password |-> body.current_password],
                             clock).status = HTTP_401_UNAUTHORIZED
    /\ \A credentials \in Credentials, body \in PasswordChanges :
          LET current == CurrentUser(users, credentials, clock, tz)
              out == change_user_password(users, current, body)
          IN  out.status = HTTP_200_OK =>
                 /\ login(out.users,
                          [email |-> out.data[1].email,
                           password |-> body.new_password],
                          clock).status = HTTP_200_OK
                 /\ body.current_password # body.new_password =>
                       login(out.users,
                             [email |-> out.data[1].email,
                              password |-> body.current_password],
                             clock).status = HTTP_401_UNAUTHORIZED

----------------------------------------------------------------------------
(* Properties of registration, checked on SpecRegister *)

\* The answer 400 with this text to the call in slot p
Refused(p, text) ==
    /\ reg'[p] = Idle
    /\ users' = users
    /\ resp' = [op |-> reg[p].via, status |-> HTTP_400_BAD_REQUEST,
                detail |-> text, data |-> None]

\* C5: a registration whose email is already stored fails with the
\* ConflictError of the email, which POST /auth/register answers as 400, and
\* stores no new record; likewise when the username is already taken.
C5_DuplicateRegistrationRefused ==
    [][\A p \in Slots :
          /\ (/\ reg[p].pc = "check_email"
              /\ reg'[p] # reg[p]
              /\ get_user_by_email(users, reg[p].user_create[1].email) # None)
             => Refused(p, "User with this email already exists")
          /\ (/\ reg[p].pc = "check_username"
              /\ reg'[p] # reg[p]
              /\ get_user_by_username(users, reg[p].user_create[1].username) # None)
             => Refused(p, "User with this username already exists")]_vars

\* One user is stored and a registration with a stored email has been
\* answered 400.
C5_Witness ==
    /\ Len(users) = 1
    /\ resp.op = "register"
    /\ resp.status = HTTP_400_BAD_REQUEST
    /\ resp.detail = "User with this email already exists"

\* C6: whatever the interleaving of concurrent registrations, no two stored
\* users share an email and no two share a username.
C6_EmailAndUsernameUnique ==
    \A i, j \in DOMAIN users :
        i # j => /\ users[i].email # users[j].email
                 /\ users[i].username # users[j].username

\* Two registrations have raced past both lookups, two users are stored and
\* the INSERT of a third one has been refused by the unique constraint.
C6_Witness ==
    /\ Len(users) = MaxUsers
    /\ resp.op = "register"
    /\ resp.detail = "UNIQUE constraint failed"

----------------------------------------------------------------------------
(* Properties of the bearer guard, checked on SpecGuard *)

\* The users whose access token this is: none when verification fails under
\* this UTC offset or the subject is no id
TokenUser(token, offset) ==
    LET verified == verify_token(token, "access", clock, offset)
    IN  IF verified.ok /\ IsIntLiteral(verified.payload["sub"])
        THEN {ParseInt(verified.payload["sub"])}
        ELSE {}

\* The answers of every bearer-protected endpoint to this credential; for
\* POST /users, the answer of its guard.
BearerAnswers(credentials, offset) ==
    LET current == CurrentUser(users, credentials, clock, offset)
        superuser == CurrentSuperuser(users, credentials, clock, offset)
    IN  {get_current_user_info(users, current),
         list_users(users, superuser, 1, 20),
         users_me(users, current),
         Http(superuser.status, superuser.detail, superuser.user, users, {})}
        \cup {change_user_password(users, current, body) :
                body \in PasswordChanges}
        \cup {get_user(users, current, user_id) : user_id \in UserIds}
        \cup {update_user_info(users, current, user_id, body) :
                user_id \in UserIds, body \in UserUpdates}

\* C9: a valid access token of a user who is inactive, or who does not
\* exist, is answered 401 by every bearer-protected endpoint, and nothing
\* stored changes.
C9_InactiveOrMissingUserRejected ==
    \A token \in tokens, offset \in Offsets :
        \A user_id \in TokenUser(token, offset) :
            LET user == get_user_by_id(users, user_id)
            IN  (user = None \/ ~user[1].is_active) =>
                    \A out \in BearerAnswers(Some(token), offset) :
                        /\ out.status = HTTP_401_UNAUTHORIZED
                        /\ out.data = None
                        /\ out.issued = {}
                        /\ out.users = users

\* A stored, inactive user's valid access token has been answered 401.
C9_Witness ==
    /\ resp.op = "update_user"
    /\ resp.status = HTTP_401_UNAUTHORIZED
    /\ resp.detail = "User is not active"
    /\ \E token \in tokens :
          \E user_id \in TokenUser(token, tz) :
              /\ get_user_by_id(users, user_id) # None
              /\ ~get_user_by_id(users, user_id)[1].is_active

----------------------------------------------------------------------------
(* Properties of token refresh, checked on SpecRefresh *)

\* C10: refresh answers 200 with a new access and refresh token for subject
\* u when the token presented is correctly signed, of type refresh, not
\* expired (exp > now) and u is the id of a stored, active user; it answers
\* 401 and issues no token when the token is badly signed or malformed, of
\* another type, expired (exp < now), or its user is unknown or inactive.
\* (The instant exp = now is left to C3.)
C10_RefreshExactlyForUnexpiredRefreshToken ==
    \A token \in Presentable :
        LET out == refresh_token(users, token, clock, tz)
            well_formed ==
                /\ token.sig = "valid"
                /\ token.claims["type"] = "refresh"
                /\ IsIntLiteral(token.claims["sub"])
            user == get_user_by_id(users, ParseInt(token.claims["sub"]))
            known == well_formed /\ user # None /\ user[1].is_active
        IN  /\ (known /\ token.claims["exp"] > Timegm(clock)) =>
                  /\ out.status = HTTP_200_OK
                  /\ out.data # None
                  /\ out.data[1].access_token.claims["sub"] = token.claims["sub"]
                  /\ out.data[1].refresh_token.claims["sub"] = token.claims["sub"]
            /\ (~known \/ token.claims["exp"] < Timegm(clock)) =>
                  /\ out.status = HTTP_401_UNAUTHORIZED
                  /\ out.data = None
                  /\ out.issued = {}

----------------------------------------------------------------------------
(* Properties of repeated refresh, checked on SpecReuse *)

\* C11: using a refresh token does not revoke it: after refresh calls have
\* succeeded, every correctly signed refresh token the client still holds
\* whose user is stored and active is accepted by refresh at every time
\* before its own exp, however many newer tokens have been issued.
C11_UsedRefreshTokenStillAccepted ==
    (resp.op = "refresh" /\ resp.status = HTTP_200_OK) =>
        \A token \in tokens :
            LET user == get_user_by_id(users, ParseInt(token.claims["sub"]))
            IN  (/\ token.claims["type"] = "refresh"
                 /\ user # None
                 /\ user[1].is_active
                 /\ token.claims["exp"] > Timegm(clock))
                => refresh_token(users, token, clock, tz).status = HTTP_200_OK

----------------------------------------------------------------------------
(* End to end, checked on SpecAccount *)

\* C12: after a successful registration of (email e, username n, password p)
\* with the default is_active, login(e, p) answers 200 with an access and a
\* refresh token, GET /auth/me with that access token answers 200 with the
\* view of that same user (email e, username n), and login(e, q) answers 401
\* for every q other than p.
C12_RegisterLoginMe ==
    \A user_create \in UserCreates, p \in Passwords :
        LET body == [user_create EXCEPT !.password = p, !.is_active = TRUE]
            created == create_user(users, body)
        IN  created.raised = "" =>
                LET logged == login(created.users,
                                    [email |-> body.email, password |-> p], clock)
                IN  /\ logged.status = HTTP_200_OK
                    /\ logged.data # None
                    /\ logged.issued = {logged.data[1].access_token,
                                         logged.data[1].refresh_token}
                    /\ LET me == get_current_user_info(logged.users,
                                     CurrentUser(logged.users,
                                         Some(logged.data[1].access_token),
                                         clock, tz))
                       IN  /\ me.status = HTTP_200_OK
                           /\ me.data # None
                           /\ me.data[1].id = created.value[1].id
                           /\ me.data[1].email = body.email
                           /\ me.data[1].username = body.username
                    /\ \A q \in Passwords \ {p} :
                          login(created.users,
                                [email |-> body.email, password |-> q],
                                clock).status = HTTP_401_UNAUTHORIZED

----------------------------------------------------------------------------
(* Properties of the responses, checked on SpecGuard *)

\* The operations that answer with the view of a user, or of several
UserViewOps ==
    {"register", "me", "change_password", "list_users", "create_new_user",
     "get_user", "update_user", "get_users_me", "put_users_me"}

\* The fields that hold a password or its hash in UserCreate,
\* UserChangePassword and UserInDB
SecretFields ==
    {"password", "password_confirm", "current_password", "new_password",
     "new_password_confirm", "hashed_password"}

\* The user views carried by the last response
ViewsReturned ==
    IF resp.op \notin UserViewOps \/ resp.data = None THEN {}
    ELSE IF resp.op = "list_users"
    THEN {resp.data[1][k] : k \in DOMAIN resp.data[1]}
    ELSE {resp.data[1]}

\* C13: the user view returned by register, /auth/me, change-password and
\* the /users endpoints never has a field holding the password or the
\* stored password hash.
C13_ViewsCarryNoPassword ==
    \A view \in ViewsReturned : DOMAIN view \cap SecretFields = {}

\* A superuser has listed several users, whose rows hold password hashes.
C13_Witness ==
    /\ resp.op = "list_users"
    /\ resp.status = HTTP_200_OK
    /\ Cardinality(ViewsReturned) > 1
    /\ \A i \in DOMAIN users : "hashed_password" \in DOMAIN users[i]

----------------------------------------------------------------------------
(* Properties of the guards, checked on SpecGuard *)

\* C14: GET /auth/me sent without any bearer credential is rejected with
\* status 403.
C14_MeWithoutCredentialIs403 ==
    \A offset \in Offsets :
        LET out == get_current_user_info(users,
                       CurrentUser(users, None, clock, offset))
        IN  /\ out.status = HTTP_403_FORBIDDEN
            /\ out.data = None

----------------------------------------------------------------------------
(* Properties of the credential dependencies, checked on SpecDeps *)

\* C15: for every supplied bearer credential that fails access-token
\* verification (malformed, bad signature, expired, wrong type, or missing
\* sub), get_current_user_id fails with 401 and returns no user id; it
\* returns a user id, the token's sub, only for a token that verify_token
\* accepts as type access.
C15_UserIdOnlyFromVerifiedAccessToken ==
    \A token \in Supplied, offset \in Offsets :
        LET verified == verify_token(token, "access", clock, offset)
            got == get_current_user_id(Some(token), clock, offset)
        IN  /\ (~verified.ok \/ "sub" \notin DOMAIN verified.payload) =>
                  /\ ~got.ok
                  /\ got.status = HTTP_401_UNAUTHORIZED
                  /\ got.user = None
            /\ got.ok =>
                  /\ verified.ok
                  /\ token.sig = "valid"
                  /\ verified.payload["type"] = "access"
                  /\ got.user = Some(verified.payload["sub"])

\* A supplied credential has been refused 401 while the client holds an
\* access token that has expired.
C15_Witness ==
    /\ resp.op = "get_current_user_id"
    /\ resp.status = HTTP_401_UNAUTHORIZED
    /\ \E token \in tokens :
          /\ token.claims["type"] = "access"
          /\ token.claims["exp"] < Timegm(clock)

----------------------------------------------------------------------------
(* Properties of authorization, checked on SpecGuard *)

\* C16: the superuser-only operations, GET /users and POST /users, are
\* refused with 403 and change nothing for every authenticated user whose
\* is_superuser is false, and are allowed only when is_superuser is true.
C16_SuperuserOnly ==
    /\ [](\A credentials \in Credentials, offset \in Offsets :
            LET current == CurrentUser(users, credentials, clock, offset)
                superuser == CurrentSuperuser(users, credentials, clock, offset)
                listed == list_users(users, superuser, 1, 20)
            IN  /\ (current.ok /\ ~current.user[1].is_superuser) =>
                      /\ ~superuser.ok
                      /\ superuser.status = HTTP_403_FORBIDDEN
                      /\ listed.status = HTTP_403_FORBIDDEN
                      /\ listed.data = None
                      /\ listed.users = users
                /\ (superuser.ok \/ listed.status = HTTP_200_OK) =>
                      /\ current.ok
                      /\ current.user[1].is_superuser)
    /\ [][/\ (resp' # resp /\ resp'.status = HTTP_403_FORBIDDEN
                /\ resp'.op \in {"list_users", "create_new_user"})
               => (users' = users /\ reg' = reg /\ tokens' = tokens)
           /\ \A p \in Slots :
                 (reg[p].pc = "idle" /\ reg'[p].via = "create_new_user") =>
                     \E credentials \in Credentials :
                         LET current == CurrentUser(users, credentials, clock, tz)
                         IN  current.ok /\ current.user[1].is_superuser]_vars

\* POST /users of an authenticated user who is no superuser has been
\* refused.
C16_Witness ==
    /\ resp.op = "create_new_user"
    /\ resp.status = HTTP_403_FORBIDDEN
    /\ resp.detail = "Not enough permissions"
    /\ \E i \in DOMAIN users : users[i].is_active /\ ~users[i].is_superuser

\* C17: the optional auth variant returns "no identity" without failing when
\* no credential is supplied, and otherwise behaves as get_current_user_id:
\* a supplied credential that passes access-token verification yields its
\* sub, and one that fails verification is rejected with 401.
C17_OptionalAuthAsResolveUserId ==
    \A offset \in Offsets :
        /\ optional_auth(None, clock, offset) = Pass(None)
        /\ \A token \in Supplied :
              LET verified == verify_token(token, "access", clock, offset)
                  got == optional_auth(Some(token), clock, offset)
              IN  IF verified.ok /\ "sub" \in DOMAIN verified.payload
                  THEN got = Pass(Some(verified.payload["sub"]))
                  ELSE /\ ~got.ok
                       /\ got.status = HTTP_401_UNAUTHORIZED

----------------------------------------------------------------------------
(* Properties of the failure responses, checked on SpecGuard *)

\* The token's subject is the id of a stored user who is inactive
OfInactiveUser(token) ==
    /\ "sub" \in DOMAIN token.claims
    /\ IsIntLiteral(token.claims["sub"])
    /\ LET user == get_user_by_id(users, ParseInt(token.claims["sub"]))
       IN  user # None /\ ~user[1].is_active

\* The tokens that fail authentication for one of the causes "expired
\* token", "invalid token" and "inactive user" when presented as a token of
\* this type
FailingTokens(token_type, offset) ==
    {token \in Presentable :
        \/ ~verify_token(token, token_type, clock, offset).ok
        \/ OfInactiveUser(token)}

\* What the caller sees of a response
External(out) == [status |-> out.status, detail |-> out.detail, data |-> out.data]

\* The responses to requests that fail authentication, per endpoint: login
\* (unknown email, bad password, inactive user), GET /auth/me and
\* POST /auth/refresh (expired token, invalid token, inactive user)
LoginFailures ==
    {out \in {External(login(users, user_login, clock)) :
                user_login \in UserLogins} : out.status # HTTP_200_OK}

MeFailures(offset) ==
    {External(get_current_user_info(users,
                  CurrentUser(users, Some(token), clock, offset))) :
        token \in FailingTokens("access", offset)}

RefreshFailures(offset) ==
    {External(refresh_token(users, token, clock, offset)) :
        token \in FailingTokens("refresh", offset)}

\* C18: all authentication failures are indistinguishable to the caller:
\* unknown email, bad password, inactive user, expired token and invalid
\* token all yield 401 with the same message, so two requests to an
\* endpoint that differ only in which of these causes applies get identical
\* responses.
C18_AuthFailuresIndistinguishable ==
    \A offset \in Offsets :
        \A failures \in {LoginFailures, MeFailures(offset),
                          RefreshFailures(offset)} :
            \A a, b \in failures :
                /\ a.status = HTTP_401_UNAUTHORIZED
                /\ a = b

----------------------------------------------------------------------------
(* Properties of the error translation, checked on SpecGuard *)

\* C19: every domain error raised by the service or guard layer reaches the
\* caller with the HTTP status of its own class (ValidationError 422,
\* UnauthorizedError 401, ForbiddenError 403, ConflictError 409,
\* NotFoundError 404); no endpoint replaces it by another status.
C19_DomainErrorKeepsItsStatus ==
    /\ \A user_create \in UserCreates :
          LET created == create_user(users, user_create)
          IN  created.raised \in DomainErrors =>
                  register(users, user_create).status = status_code(created.raised)
    /\ \A token \in Presentable :
          LET verified == verify_token(token, "access", clock, tz)
          IN  ~verified.ok =>
                  get_current_user_id(Some(token), clock, tz).status
                      = status_code("UnauthorizedError")
    /\ \A credentials \in Credentials :
          LET current == CurrentUser(users, credentials, clock, tz)
          IN  current.ok =>
                /\ \A body \in PasswordChanges :
                      LET changed ==
                              change_password(users, current.user[1].id, body)
                      IN  changed.raised \in DomainErrors =>
                              change_user_password(users, current, body).status
                                  = status_code(changed.raised)
                /\ \A user_id \in UserIds, body \in UserUpdates :
                      LET updated == update_user(users, user_id, body)
                          out == update_user_info(users, current, user_id, body)
                      IN  (/\ updated.raised \in DomainErrors
                           /\ out.status # HTTP_403_FORBIDDEN) =>
                              out.status = status_code(updated.raised)

----------------------------------------------------------------------------
(* Properties of unexpected errors, checked on SpecErrors *)

\* The opaque answer of general_exception_handler
Opaque(status, detail, text) ==
    /\ status = HTTP_500_INTERNAL_SERVER_ERROR
    /\ detail = "Internal server error"
    /\ detail # text

\* C20: for every endpoint, an exception that is no domain error, raised
\* while a request is handled, is reported to the caller as an opaque
\* internal error whose body carries none of the exception's text.
C20_UnexpectedErrorsOpaque ==
    /\ [](\A credentials \in Credentials, outcome \in ChatOutcomes :
            LET out == chat(users, optional_auth(credentials, clock, tz), outcome)
            IN  outcome.raised \notin DomainErrors \cup {""} =>
                    Opaque(out.status, out.detail, outcome.message))
    /\ [][\A p \in Slots :
             LET got == create_user_insert(users, reg[p].user_create[1])
             IN  (/\ reg[p].pc = "insert"
                  /\ reg'[p] # reg[p]
                  /\ got.raised \notin DomainErrors \cup {""}) =>
                     Opaque(resp'.status, resp'.detail, got.message)]_vars

----------------------------------------------------------------------------
(* Properties of persistence failures, checked on SpecOutage *)

\* C21: a persistence failure raised while login, refresh or a
\* bearer-protected request is handled ends the request with a 5xx answer;
\* it is never reported as an authentication failure (401) nor as success,
\* and nothing is stored.
C21_PersistenceFailureIsFatal ==
    /\ \A user_login \in UserLogins :
          LET out == login_db("down", users, user_login, clock)
          IN  out.status >= 500 /\ out.users = users /\ out.issued = {}
    /\ \A token \in tokens :
          LET out == refresh_token_db("down", users, token, clock, tz)
          IN  verify_token(token, "refresh", clock, tz).ok =>
                  (out.status >= 500 /\ out.users = users /\ out.issued = {})
    /\ \A token \in tokens :
          LET user_id == get_current_user_id(Some(token), clock, tz)
              out == get_current_user_info(users,
                         get_current_user_db("down", users, user_id))
          IN  user_id.ok => (out.status >= 500 /\ out.users = users)

----------------------------------------------------------------------------
(* Properties of the issuing functions, checked on SpecIssue *)

\* The claims create_access_token sets itself
OwnClaims == {"sub", "exp", "iat", "type"}

\* C22: for every subject, every ttl (a zero ttl included) and every
\* extra-claims map, create_access_token gives sub = str(subject),
\* type = access, iat = now and exp = now + ttl (now + 30 minutes only when
\* no ttl is given), and the extra claims add keys without replacing sub,
\* exp, iat or type; refresh tokens expire after 7 days and reset tokens
\* after 15 minutes.
C22_IssuedClaims ==
    /\ \A subject \in Subjects, expires_delta \in ExpiresDeltas,
          additional_claims \in AdditionalClaims :
          LET claims == create_access_token(subject, expires_delta,
                                            additional_claims, clock).claims
              ttl == IF expires_delta = None
                     THEN Minutes(access_token_expire_minutes)
                     ELSE expires_delta[1]
          IN  /\ DOMAIN claims = OwnClaims \cup DOMAIN additional_claims
              /\ claims["sub"] = subject
              /\ claims["type"] = "access"
              /\ claims["iat"] = Timegm(clock)
              /\ claims["exp"] = Timegm(clock) + ttl
              /\ \A k \in DOMAIN additional_claims \ OwnClaims :
                    claims[k] = additional_claims[k]
    /\ \A subject \in Subjects :
          /\ create_refresh_token(subject, clock).claims["exp"] =
                 Timegm(clock) + Days(7)
          /\ generate_password_reset_token(subject, clock).claims["exp"] =
                 Timegm(clock) + Minutes(15)

\* C23: the readiness check always answers 200; its body says "ready"
\* exactly when the database probe succeeds and "not_ready" when the probe
\* raises, and it changes nothing.
C23_ReadinessAlwaysAnswers200 ==
    /\ [](\A db \in DbStates :
            LET out == readiness_check(db, users, clock)
            IN  /\ out.status = HTTP_200_OK
                /\ out.data # None
                /\ out.data[1].status = "ready" <=> db = "up"
                /\ out.data[1].status = "not_ready" <=> db = "down"
                /\ out.users = users)
    /\ [][(resp' # resp /\ resp'.op = "readiness_check") =>
              /\ resp'.status = HTTP_200_OK
              /\ resp'.data # None
              /\ resp'.data[1].status \in {"ready", "not_ready"}
              /\ users' = users /\ tokens' = tokens]_vars

\* The readiness check has answered while the database was out of reach and
\* users were stored.
C23_Witness ==
    /\ resp.op = "readiness_check"
    /\ resp.status = HTTP_200_OK
    /\ resp.data # None
    /\ resp.data[1].status = "not_ready"
    /\ users # << >>

----------------------------------------------------------------------------
(* Properties of input validation, checked on SpecValidate *)

\* The password policy: at least 8 characters, an uppercase letter, a
\* lowercase letter and a digit, and a confirmation equal to the password
Policy(password, confirm) ==
    /\ Len(password) >= 8
    /\ \E i \in DOMAIN password : isupper(password[i])
    /\ \E i \in DOMAIN password : islower(password[i])
    /\ \E i \in DOMAIN password : isdigit(password[i])
    /\ confirm = password

\* A body rejected by validation is answered 422 and nothing is stored
RejectedBeforeService ==
    [][(resp' # resp /\ resp'.status = HTTP_422_UNPROCESSABLE_ENTITY) =>
          (users' = users /\ tokens' = tokens)]_vars

----------------------------------------------------------------------------
(* Properties of the user records, checked on SpecGuard *)

\* C25: GET and PUT /users/{user_id} of an authenticated user who is no
\* superuser and whose id is not user_id are answered 403 and change
\* nothing; a record is read or updated only by its owner or by a superuser.
C25_OwnRecordOnly ==
    /\ [](\A credentials \in Credentials, user_id \in UserIds,
             body \in UserUpdates :
             LET current == CurrentUser(users, credentials, clock, tz)
                 got == get_user(users, current, user_id)
                 put == update_user_info(users, current, user_id, body)
             IN  /\ (/\ current.ok
                     /\ ~current.user[1].is_superuser
                     /\ current.user[1].id # user_id) =>
                        /\ got.status = HTTP_403_FORBIDDEN
                        /\ got.data = None
                        /\ got.users = users
                        /\ put.status = HTTP_403_FORBIDDEN
                        /\ put.data = None
                        /\ put.users = users
                 /\ (\/ got.status = HTTP_200_OK
                     \/ put.status = HTTP_200_OK
                     \/ put.users # users) =>
                        /\ current.ok
                        /\ \/ current.user[1].id = user_id
                           \/ current.user[1].is_superuser)
    /\ [][(/\ resp' # resp
            /\ resp'.op \in {"get_user", "update_user"}
            /\ resp'.status = HTTP_403_FORBIDDEN)
           => (users' = users /\ tokens' = tokens)]_vars

\* PUT /users/{user_id} of a user who is no superuser, for the record of
\* another stored user, has been answered 403.
C25_Witness ==
    /\ resp.op = "update_user"
    /\ resp.status = HTTP_403_FORBIDDEN
    /\ resp.detail = "Not enough permissions"
    /\ Len(users) = MaxUsers
    /\ \A i \in DOMAIN users : ~users[i].is_superuser

\* The table with the is_active of every stored user as it is now
IsActiveKept(tbl) ==
    \A i \in DOMAIN users : i \in DOMAIN tbl /\ tbl[i].is_active = users[i].is_active

\* C26: a profile update of a user who is no superuser through
\* PUT /users/{user_id}, and every update through PUT /users/me, leaves the
\* is_active of every user as it was, whatever the body carries; only
\* PUT /users/{user_id} of a superuser changes is_active.
C26_IsActiveOnlyBySuperuser ==
    /\ [](\A credentials \in Credentials, body \in UserUpdates :
             LET current == CurrentUser(users, credentials, clock, tz)
             IN  /\ IsActiveKept(users_me(users, current).users)
                 /\ IsActiveKept(
                        update_current_user_profile(users, current, body).users)
                 /\ (current.ok /\ ~current.user[1].is_superuser) =>
                        \A user_id \in UserIds :
                            IsActiveKept(update_user_info(
                                users, current, user_id, body).users))
    /\ [][(\E i \in DOMAIN users : users'[i].is_active # users[i].is_active)
           => /\ resp'.op = "update_user"
              /\ \E credentials \in Credentials :
                    LET current == CurrentUser(users, credentials, clock, tz)
                    IN  current.ok /\ current.user[1].is_superuser]_vars

\* PUT /users/{user_id} of an active user who is no superuser, with a body
\* that carries is_active, has been answered 200.
C26_Witness ==
    /\ resp.op = "update_user"
    /\ resp.status = HTTP_200_OK
    /\ resp.data # None
    /\ resp.data[1].is_active
    /\ ~resp.data[1].is_superuser
    /\ \A i \in DOMAIN users : ~users[i].is_superuser

----------------------------------------------------------------------------
(* Properties of blog generation, checked on SpecBlog *)

\* The place of a step in the workflow
Rank(step) ==
    CASE step = "intent" -> 1
      [] step = "outline" -> 2
      [] step = "section" -> 3
      [] step = "critic" -> 4
      [] step = "refine" -> 5
      [] OTHER -> 6

\* How often the call in flight ran a step
Ran(step) == Cardinality({i \in DOMAIN blog.steps : blog.steps[i] = step})

\* The intent output asks for clarification or does not parse
Asks(intent_raw) ==
    ~intent_raw.parses \/ Get(intent_raw.obj, "need_clarification", FALSE)

\* C27: generate_blog_article runs its steps in the order intent, outline,
\* one section step per outline entry (at most section_count), critic,
\* refine, editor; when the intent output asks for clarification or does
\* not parse and the request carries no answers, it stops after the intent
\* step and returns need_clarification = true with questions; refine runs
\* only when the critique parses and has ok = false; the editor runs last,
\* and only a response with need_clarification = false follows it.
C27_BlogStepsInOrder ==
    LET steps == blog.steps
    IN  /\ \A i \in DOMAIN steps :
              \A j \in DOMAIN steps :
                  i < j => Rank(steps[i]) <= Rank(steps[j])
        /\ \A step \in {"intent", "outline", "critic", "refine", "editor"} :
              Ran(step) <= 1
        /\ steps # << >> => steps[1] = "intent"
        /\ Ran("section") > 0 => Ran("outline") = 1
        /\ Ran("critic") > 0 => Ran("section") > 0
        /\ Ran("refine") > 0 => Ran("critic") = 1
        /\ Ran("editor") > 0 => Ran("critic") = 1
        /\ blog.req # None =>
              /\ Ran("section") <= blog.req[1].section_count
              /\ Ran("section") > 0 =>
                    Ran("section") <= Len(blog.outline_list)
              /\ Ran("critic") > 0 =>
                    Ran("section") =
                        Len(Planned(blog.outline_list,
                                    blog.req[1].section_count))
        /\ (/\ blog.intent_raw # None
            /\ Asks(blog.intent_raw[1])
            /\ NoAnswers(blog.req[1])) =>
               /\ blog.pc = "done"
               /\ steps = <<"intent">>
               /\ resp.status = HTTP_200_OK
               /\ resp.data[1].need_clarification
               /\ resp.data[1].questions # << >>
        /\ Ran("refine") > 0 =>
               /\ blog.critique_raw # None
               /\ blog.critique_raw[1].parses
               /\ "ok" \in DOMAIN blog.critique_raw[1].obj
               /\ blog.critique_raw[1].obj["ok"] = FALSE
        /\ Ran("editor") > 0 =>
               /\ steps[Len(steps)] = "editor"
               /\ blog.pc = "done"
        /\ (blog.pc = "done" /\ resp.op = "generate_blog"
              /\ resp.status = HTTP_200_OK) =>
               (resp.data[1].need_clarification <=> Ran("editor") = 0)

\* An article of three sections has been returned after the critic found it
\* wanting and the refine step rewrote it.
C27_Witness ==
    /\ blog.pc = "done"
    /\ blog.steps = <<"intent", "outline", "section", "section", "section",
                      "critic", "refine", "editor">>
    /\ resp.op = "generate_blog"
    /\ resp.status = HTTP_200_OK
    /\ ~resp.data[1].need_clarification

----------------------------------------------------------------------------
(* Properties of the HTTP API as a whole, checked on SpecApi *)

\* C28: no operation of the HTTP API writes is_superuser: the users that
\* register and POST /users create have is_superuser = false and no update
\* changes it, so from an empty directory no state has a superuser and
\* every superuser-only request is refused.
C28_NoSuperuserThroughApi ==
    /\ \A i \in DOMAIN users : ~users[i].is_superuser
    /\ \A p \in Slots : reg[p].via # "create_new_user"
    /\ \A credentials \in Credentials :
          LET superuser == CurrentSuperuser(users, credentials, clock, tz)
          IN  /\ ~superuser.ok
              /\ superuser.status \in {HTTP_401_UNAUTHORIZED, HTTP_403_FORBIDDEN}
              /\ list_users(users, superuser, 1, 20).status # HTTP_200_OK
    /\ resp.op \in {"list_users", "create_new_user"} =>
          resp.status \in {HTTP_401_UNAUTHORIZED, HTTP_403_FORBIDDEN}

\* GET /users of a registered, active user has been refused with 403 in a
\* full directory.
C28_Witness ==
    /\ resp.op = "list_users"
    /\ resp.status = HTTP_403_FORBIDDEN
    /\ Len(users) = MaxUsers
    /\ \E i \in DOMAIN users : users[i].last_login # None

----------------------------------------------------------------------------
(* Properties of concurrent password changes, checked on SpecChange *)

\* The hash stored for the user of the call in slot p
StoredHash(p) == get_user_by_id(users, chg[p].user_id)[1].hashed_password

\* The call in slot p writes its update in this step
Writes(p) == chg[p].pc = "write" /\ chg'[p].pc = "return"

\* C29: under every interleaving of change_password requests for the same
\* user, a request succeeds only if its current_password matches the hash
\* that is stored at the moment its own update is written.
C29_CheckedAgainstHashAtWrite ==
    [][\A p \in Slots :
          Writes(p) =>
              verify_password(chg[p].password_change[1].current_password,
                              StoredHash(p))]_vars

\* C29, amended: a request succeeds only if its current_password matches
\* the hash that was stored when the request read the user; the row it
\* checks is the row it read, and it writes only after the check.
C29_CheckedAgainstHashAtRead ==
    [][\A p \in Slots :
          /\ (chg[p].pc = "read" /\ chg'[p].pc = "write") =>
                /\ chg'[p].db_user = get_user_by_id(users, chg[p].user_id)
                /\ verify_password(
                       chg[p].password_change[1].current_password,
                       StoredHash(p))
          /\ Writes(p) =>
                /\ chg[p].db_user # None
                /\ verify_password(
                       chg[p].password_change[1].current_password,
                       chg[p].db_user[1].hashed_password)
          /\ chg'[p].pc = "write" => chg[p].pc \in {"read", "write"}
          /\ chg'[p].pc = "return" => chg[p].pc \in {"write", "return"}]_vars

\* One request has written its new password while another request for the
\* same user, whose current password no longer matches the stored hash, is
\* about to write.
C29_Witness ==
    \E p \in Slots :
        \E q \in Slots \ {p} :
            /\ chg[p].pc = "return"
            /\ chg[q].pc = "write"
            /\ chg[q].user_id = chg[p].user_id
            /\ ~verify_password(chg[q].password_change[1].current_password,
                                StoredHash(q))

----------------------------------------------------------------------------
(* Properties of verification under the server's time zones, checked on     *)
(* SpecCodec                                                                *)

\* C30: the decision of verify_token does not depend on the server's local
\* UTC offset: under every offset it decides alike, and it accepts a
\* correctly signed token of the expected type whenever the token's exp is
\* later than the current UTC time.
C30_VerifyIndependentOfOffset ==
    \A token \in Presentable, token_type \in TokenTypes :
        /\ \A offset \in Offsets :
              verify_token(token, token_type, clock, offset) =
                  verify_token(token, token_type, clock, 0)
        /\ \A offset \in Offsets :
              (/\ token.sig = "valid"
               /\ token.claims["type"] = token_type
               /\ token.claims["exp"] > Timegm(clock)) =>
                  verify_token(token, token_type, clock, offset).ok

====
